---------------------------- MODULE Spec2Model ----------------------------
(***************************************************************************)
(* Vessel telemetry ingestion (internal/ingest/xlsx.go) over the SQLite    *)
(* schema (schema/schema.sql).                                             *)
(*                                                                         *)
(* The database is one record `db`; every SQL statement of the code is     *)
(* one atomic step of the worker that issues it, so concurrent             *)
(* ProcessFile calls interleave statement by statement.  A workbook is     *)
(* given as the workbook reader hands it to the code: its sheets in        *)
(* order, each with the columns the header mapper resolved and its data    *)
(* rows as cells.  Times are counted in half seconds, so that RFC3339      *)
(* formatting (whole seconds) is not the identity.                         *)
(***************************************************************************)
EXTENDS Integers, Sequences, FiniteSets, TLC

VARIABLES db, loc, log, calls, allowUnsafeDuplicateIngest, http, scan, calc

vars == <<db, loc, log, calls, allowUnsafeDuplicateIngest, http, scan, calc>>

(***************************************************************************)
(* Bounds of the model.                                                    *)
(***************************************************************************)
\* ProcessFile calls started in one behaviour.
MaxCalls == 2

\* Goroutines serving requests at the same time.
Workers == {"w1", "w2"}

(***************************************************************************)
(* Values.                                                                 *)
(***************************************************************************)
\* A nil pointer (*float64, *int) and a set one.
Null == <<>>
Some(x) == <<x>>

\* Spreadsheet cells: empty, a number, text that is no number, a string.
EmptyCell == [k |-> "empty", n |-> 0, s |-> ""]
NumCell(x) == [k |-> "num", n |-> x, s |-> ""]
BadCell == [k |-> "bad", n |-> 0, s |-> "n/a"]
StrCell(x) == [k |-> "str", n |-> 0, s |-> x]

\* row[col] of the header -> cell map; a missing key reads as "".
CellOf(row, col) == IF col \in DOMAIN row THEN row[col] ELSE EmptyCell

\* The text of a cell ("" when the cell is empty).
Text(c) == IF c.k = "empty" THEN "" ELSE IF c.k = "str" THEN c.s ELSE "#"

ParseFloat(c) == IF c.k = "num" THEN Some(c.n) ELSE Null

\* ParseTimestamp: <<ok, value>>; an empty or unparseable cell is an error.
ParseTimestamp(c) == IF c.k = "num" THEN <<TRUE, c.n>> ELSE <<FALSE, 0>>

\* regexp \d+ then Atoi: the first run of digits of the cell, if any.
DigitsOf(c) == IF c.k = "num" THEN Some(c.n) ELSE Null

Streams == {"engines", "fuel", "generators", "cctv", "impact", "location"}


Range(q) == {q[i] : i \in DOMAIN q}

(***************************************************************************)
(* util: SHA256Hex and HashRow.  The digest is taken as injective, so a    *)
(* hash is modelled by the text that is digested.  A text is a sequence of *)
(* symbols: a symbol is one character, given by its code, or a word, a     *)
(* piece of text that holds no "|" (a stream name, a printed integer, a    *)
(* formatted time, and the tags and payloads made from the cells of the    *)
(* model's workbooks).                                                     *)
(***************************************************************************)
SHA256Hex(data) == <<"sha256", data>>

\* ts.Format(time.RFC3339): whole seconds, the half second is dropped.
FormatRFC3339(ts) == ts \div 2

Chr(n) == [p |-> "chr", n |-> n, s |-> "", j |-> <<>>]

\* The separator of strings.Join(parts, "|").
Pipe == Chr(124)

\* One hash key: a tag "<p><n><s>" or the serialized extra-fields payload j.
TagKey(p, n, s) == <<[p |-> p, n |-> n, s |-> s, j |-> <<>>]>>
JsonKey(j) == <<[p |-> "json", n |-> 0, s |-> "", j |-> j]>>

\* The byte a symbol begins with: a payload begins with "{" (123), a tag
\* with a lower-case letter (the code of "a" stands for them all; a key list
\* of the processors holds at most one tag).
Code(c) == IF c.p = "chr" THEN c.n ELSE IF c.p = "json" THEN 123 ELSE 97

\* a < b bytewise, as sort.Strings compares.
Less(a, b) ==
    \E i \in 1..Len(b) :
        /\ \A m \in 1..(i - 1) : m <= Len(a) /\ Code(a[m]) = Code(b[m])
        /\ i > Len(a) \/ Code(a[i]) < Code(b[i])

\* k put into the sorted list q, after the entries that are not above it.
InsertKey(k, q) ==
    LET n == Cardinality({i \in DOMAIN q : ~Less(k, q[i])})
    IN  SubSeq(q, 1, n) \o <<k>> \o SubSeq(q, n + 1, Len(q))

\* sort.Strings(keys)
\* The keys as they were passed.
SortStrings_Unsorted(keys) == keys

RECURSIVE SortStrings(_)
SortStrings(keys) ==
    IF keys = <<>> THEN <<>> ELSE InsertKey(keys[1], SortStrings(Tail(keys)))

\* strings.Join(parts, "|")
RECURSIVE Join(_)
Join(parts) ==
    IF parts = <<>> THEN <<>>
    ELSE IF Len(parts) = 1 THEN parts[1]
    ELSE parts[1] \o <<Pipe>> \o Join(Tail(parts))

HashRow(vesselID, ts, stream, keys) ==
    SHA256Hex(Join(<<TagKey("stream", 0, stream), TagKey("int", vesselID, ""),
                     TagKey("time", FormatRFC3339(ts), "")>>
                   \o SortStrings(keys)))

(***************************************************************************)
(* Header mapper results and row helpers.  sh.find gives, for each         *)
(* FindHeader call (named by its first pattern), the header it resolved;   *)
(* a call that found nothing has no entry and the column is "".            *)
(***************************************************************************)
Col(sh, role) == IF role \in DOMAIN sh.find THEN sh.find[role] ELSE ""

\* json.Marshal of the map of the unmapped, non-empty columns (keys sorted),
\* "{}" when there is none: the map itself.
BuildExtraJSON(row, mappedCols) ==
    LET keep == {c \in DOMAIN row : c \notin mappedCols /\ Text(row[c]) # ""}
    IN  [c \in keep |-> Text(row[c])]

\* The timestamp cell taken as parsed whether it parsed or not.
ResolveTS_Unchecked(sh, row, defaultTS) ==
    IF Col(sh, "timestamp") # ""
    THEN ParseTimestamp(CellOf(row, Col(sh, "timestamp")))[2]
    ELSE defaultTS

\* ts := defaultTS; replaced when a timestamp column exists and its cell parses.
ResolveTS(sh, row, defaultTS) ==
    LET tsCol == Col(sh, "timestamp")
        p == ParseTimestamp(CellOf(row, tsCol))
    IN  IF tsCol # "" /\ p[1] THEN p[2] ELSE defaultTS

FloatAt(sh, row, role) ==
    IF Col(sh, role) # "" THEN ParseFloat(CellOf(row, Col(sh, role))) ELSE Null

IntAt(sh, row, role) ==
    IF Col(sh, role) # "" THEN DigitsOf(CellOf(row, Col(sh, role))) ELSE Null

\* A *string field: "" stands for nil (the code sets it only when non-empty).
StrAt(sh, row, role) ==
    IF Col(sh, role) # "" THEN Text(CellOf(row, Col(sh, role))) ELSE ""

(***************************************************************************)
(* Field validators: the list of warnings.                                 *)
(***************************************************************************)
WarnIf(cond, msg) == IF cond THEN <<msg>> ELSE <<>>

ValidateEngineData(rpm, temp, pressure) ==
    WarnIf(rpm # Null /\ rpm[1] < 0, "negative rpm")
    \o WarnIf(pressure # Null /\ pressure[1] < 0, "negative oil pressure")

ValidateFuelData(level, volume, temp) ==
    WarnIf(level # Null /\ (level[1] < 0 \/ level[1] > 100),
           "invalid fuel level percentage")
    \o WarnIf(volume # Null /\ volume[1] < 0, "negative fuel volume")

\* A generator validator with the limits of the frequency one too wide.
ValidateGeneratorData_Wide(load, voltage, frequency, fuelRate) ==
    WarnIf(load # Null /\ load[1] < 0, "negative generator load")
    \o WarnIf(voltage # Null /\ voltage[1] < 0, "negative voltage")
    \o WarnIf(frequency # Null /\ (frequency[1] < 44 \/ frequency[1] > 71),
              "frequency out of range (45-70 Hz)")
    \o WarnIf(fuelRate # Null /\ fuelRate[1] < 0, "negative fuel rate")

ValidateGeneratorData(load, voltage, frequency, fuelRate) ==
    WarnIf(load # Null /\ load[1] < 0, "negative generator load")
    \o WarnIf(voltage # Null /\ voltage[1] < 0, "negative voltage")
    \o WarnIf(frequency # Null /\ (frequency[1] < 45 \/ frequency[1] > 70),
              "frequency out of range (45-70 Hz)")
    \o WarnIf(fuelRate # Null /\ fuelRate[1] < 0, "negative fuel rate")

ValidateLocationData(latitude, longitude, course, speed) ==
    WarnIf(latitude # Null /\ (latitude[1] < -90 \/ latitude[1] > 90),
           "latitude out of range (-90 to 90)")
    \o WarnIf(longitude # Null /\ (longitude[1] < -180 \/ longitude[1] > 180),
              "longitude out of range (-180 to 180)")
    \o WarnIf(course # Null /\ (course[1] < 0 \/ course[1] > 360),
              "course out of range (0-360 degrees)")
    \o WarnIf(speed # Null /\ speed[1] < 0, "negative speed")

(***************************************************************************)
(* The database (schema.sql).                                              *)
(***************************************************************************)
EmptyDB ==
    [vessels  |-> {},                        \* [id, imo, name, flag, type]
     vseq     |-> 0,                         \* AUTOINCREMENT of vessels.id
     uploads  |-> {},                        \* [id, vessel_id, file_hash]
     readings |-> [s \in Streams |-> {}],    \* one table per stream
     latest   |-> {}]                        \* [vessel_id, stream, latest_ts]

\* SELECT id FROM vessels WHERE imo = ?
SelectVesselByIMO(d, imo) == {v.id : v \in {x \in d.vessels : x.imo = imo}}

\* A lookup that finds no upload.
SelectUploadByHash_Miss(d, h) == {}

\* SELECT id FROM uploads WHERE file_hash = ?
SelectUploadByHash(d, h) == {u.id : u \in {x \in d.uploads : x.file_hash = h}}

\* An INSERT INTO vessels that takes the row of a vessel without IMO that
\* has the name, when there is one.
InsertVessel_ByName(d, imo, name, flag, type) ==
    IF imo = "" /\ \E v \in d.vessels : v.imo = "" /\ v.name = name
    THEN [ok |-> TRUE,
          id |-> (CHOOSE v \in d.vessels : v.imo = "" /\ v.name = name).id,
          db |-> d]
    ELSE IF imo # "" /\ {v.id : v \in {x \in d.vessels : x.imo = imo}} # {}
    THEN [ok |-> FALSE, id |-> 0, db |-> d]
    ELSE [ok |-> TRUE, id |-> d.vseq + 1,
          db |-> [d EXCEPT !.vseq = @ + 1,
                           !.vessels = @ \cup {[id |-> d.vseq + 1, imo |-> imo,
                                                name |-> name, flag |-> flag,
                                                type |-> type]}]]

\* An INSERT INTO vessels without the UNIQUE(imo) constraint.
InsertVessel_NoUnique(d, imo, name, flag, type) ==
    [ok |-> TRUE, id |-> d.vseq + 1,
     db |-> [d EXCEPT !.vseq = @ + 1,
                      !.vessels = @ \cup {[id |-> d.vseq + 1, imo |-> imo,
                                           name |-> name, flag |-> flag,
                                           type |-> type]}]]

\* INSERT INTO vessels: fails on UNIQUE(imo) when the IMO is not NULL ("").
InsertVessel(d, imo, name, flag, type) ==
    IF imo # "" /\ SelectVesselByIMO(d, imo) # {}
    THEN [ok |-> FALSE, id |-> 0, db |-> d]
    ELSE [ok |-> TRUE, id |-> d.vseq + 1,
          db |-> [d EXCEPT !.vseq = @ + 1,
                           !.vessels = @ \cup {[id |-> d.vseq + 1, imo |-> imo,
                                                name |-> name, flag |-> flag,
                                                type |-> type]}]]

\* UPDATE vessels SET name = ?, flag = ?, type = ? WHERE id = ?
UpdateVessel(d, id, name, flag, type) ==
    [d EXCEPT !.vessels =
        {IF v.id = id
         THEN [v EXCEPT !.name = name, !.flag = flag, !.type = type]
         ELSE v : v \in @}]

SameKey(a, b) ==
    a.vessel_id = b.vessel_id /\ a.ts = b.ts /\ a.row_hash = b.row_hash

\* INSERT OR REPLACE in the place of INSERT OR IGNORE.
InsertOrIgnore_Replace(d, stream, r) ==
    [d EXCEPT !.readings[stream] = {x \in @ : ~SameKey(x, r)} \cup {r}]

\* INSERT OR IGNORE INTO <stream>_readings: UNIQUE(vessel_id, ts, row_hash).
InsertOrIgnore(d, stream, r) ==
    IF \E x \in d.readings[stream] : SameKey(x, r)
    THEN d
    ELSE [d EXCEPT !.readings[stream] = @ \cup {r}]

\* INSERT OR IGNORE in the place of INSERT OR REPLACE: a pointer that is there
\* stays as it is.
ReplaceLatest_Ignore(d, vesselID, stream, ts) ==
    IF \E x \in d.latest : x.vessel_id = vesselID /\ x.stream = stream
    THEN d
    ELSE [d EXCEPT !.latest =
             @ \cup {[vessel_id |-> vesselID, stream |-> stream, latest_ts |-> ts]}]

\* INSERT OR REPLACE INTO vessel_stream_latest: PRIMARY KEY (vessel_id, stream).
ReplaceLatest(d, vesselID, stream, ts) ==
    [d EXCEPT !.latest =
        {x \in @ : ~(x.vessel_id = vesselID /\ x.stream = stream)}
        \cup {[vessel_id |-> vesselID, stream |-> stream, latest_ts |-> ts]}]

(***************************************************************************)
(* Sheet processors, one data row at a time.  Each gives the warnings the  *)
(* row adds, whether an INSERT OR IGNORE is issued, and the row inserted.  *)
(* i is the index of the row in the sheet (the header row is row 0).       *)
(***************************************************************************)
NoRow == [vessel_id |-> 0, ts |-> 0, row_hash |-> <<>>, f |-> <<>>, extra_json |-> <<>>]

Skipped(stream, i, warns) ==
    [warns |-> <<[row |-> i + 1, stream |-> stream, msgs |-> warns]>>,
     insert |-> FALSE, row |-> NoRow]

Inserted(vesselID, ts, rowHash, fields, extraJSON) ==
    [warns |-> <<>>, insert |-> TRUE,
     row |-> [vessel_id |-> vesselID, ts |-> ts, row_hash |-> rowHash,
              f |-> fields, extra_json |-> extraJSON]]

\* hashKeys: the tag, when the identifier is set, then the extra payload.
HashKeys(prefix, n, s, isSet, extraJSON) ==
    (IF isSet THEN <<TagKey(prefix, n, s)>> ELSE <<>>) \o <<JsonKey(extraJSON)>>

EngineRow(sh, i, row, vesselID, defaultTS) ==
    LET ts == ResolveTS(sh, row, defaultTS)
        engineNo == IntAt(sh, row, "engine_no")
        rpm == FloatAt(sh, row, "rpm")
        tempC == FloatAt(sh, row, "temp")
        oilPressure == FloatAt(sh, row, "oil_pressure")
        alarms == StrAt(sh, row, "alarm")
        warns == ValidateEngineData(rpm, tempC, oilPressure)
        mappedCols == {Col(sh, "timestamp"), Col(sh, "engine_no"), Col(sh, "rpm"),
                       Col(sh, "temp"), Col(sh, "oil_pressure"), Col(sh, "alarm")}
        extraJSON == BuildExtraJSON(row, mappedCols)
        hashKeys == HashKeys("engine_no:", IF engineNo = Null THEN 0 ELSE engineNo[1],
                             "", engineNo # Null, extraJSON)
    IN  IF Len(warns) > 0
        THEN Skipped("engines", i, warns)
        ELSE Inserted(vesselID, ts, HashRow(vesselID, ts, "engines", hashKeys),
                      [engine_no |-> engineNo, rpm |-> rpm, temp_c |-> tempC,
                       oil_pressure_bar |-> oilPressure, alarms |-> alarms],
                      extraJSON)

\* The value taken as litres whatever the header.
Liters_Raw(sh, col, v) == v

\* A "(m3)" / "m3" header: the value is cubic metres.
Liters(sh, col, v) == IF col \in sh.m3 THEN v * 1000 ELSE v

\* (cur / cap) * 100; the workbooks of the model keep the quotient whole.
LevelPercent(curLiters, capLiters) ==
    IF curLiters # Null /\ capLiters # Null /\ capLiters[1] > 0
    THEN Some((curLiters[1] * 100) \div capLiters[1])
    ELSE Null

FuelRow(sh, i, row, vesselID, defaultTS) ==
    LET ts == ResolveTS(sh, row, defaultTS)
        tankNo == IntAt(sh, row, "tank_no")
        capCol == Col(sh, "capacity")
        curCol == Col(sh, "current")
        capV == FloatAt(sh, row, "capacity")
        curV == FloatAt(sh, row, "current")
        capLiters == IF capV # Null THEN Some(Liters(sh, capCol, capV[1])) ELSE Null
        curLiters == IF curCol # ""
                     THEN (IF curV # Null THEN Some(Liters(sh, curCol, curV[1])) ELSE Null)
                     ELSE capLiters
        tempC == FloatAt(sh, row, "temp")
        levelPercent == LevelPercent(curLiters, capLiters)
        warns == ValidateFuelData(levelPercent, curLiters, tempC)
        mappedCols == {Col(sh, "timestamp"), Col(sh, "tank_no"), capCol, curCol,
                       Col(sh, "temp")}
        extraJSON == BuildExtraJSON(row, mappedCols)
        hashKeys == HashKeys("tank_no:", IF tankNo = Null THEN 0 ELSE tankNo[1],
                             "", tankNo # Null, extraJSON)
    IN  IF Len(warns) > 0
        THEN Skipped("fuel", i, warns)
        ELSE Inserted(vesselID, ts, HashRow(vesselID, ts, "fuel", hashKeys),
                      [tank_no |-> tankNo, level_percent |-> levelPercent,
                       volume_liters |-> curLiters, temp_c |-> tempC],
                      extraJSON)

GeneratorRow(sh, i, row, vesselID, defaultTS) ==
    LET ts == ResolveTS(sh, row, defaultTS)
        genNo == IntAt(sh, row, "gen_no")
        loadKW == FloatAt(sh, row, "load")
        voltageV == FloatAt(sh, row, "voltage")
        frequencyHz == FloatAt(sh, row, "frequency")
        fuelRateLPH == FloatAt(sh, row, "fuel_rate")
        warns == ValidateGeneratorData(loadKW, voltageV, frequencyHz, fuelRateLPH)
        mappedCols == {Col(sh, "timestamp"), Col(sh, "gen_no"), Col(sh, "load"),
                       Col(sh, "voltage"), Col(sh, "frequency"), Col(sh, "fuel_rate")}
        extraJSON == BuildExtraJSON(row, mappedCols)
        hashKeys == HashKeys("gen_no:", IF genNo = Null THEN 0 ELSE genNo[1],
                             "", genNo # Null, extraJSON)
    IN  IF Len(warns) > 0
        THEN Skipped("generators", i, warns)
        ELSE Inserted(vesselID, ts, HashRow(vesselID, ts, "generators", hashKeys),
                      [gen_no |-> genNo, load_kw |-> loadKW, voltage_v |-> voltageV,
                       frequency_hz |-> frequencyHz, fuel_rate_lph |-> fuelRateLPH],
                      extraJSON)

CCTVRow(sh, i, row, vesselID, defaultTS) ==
    LET ts == ResolveTS(sh, row, defaultTS)
        camID == StrAt(sh, row, "cam_id")
        status == StrAt(sh, row, "status")
        uptimePercent == FloatAt(sh, row, "uptime")
        mappedCols == {Col(sh, "timestamp"), Col(sh, "cam_id"), Col(sh, "status"),
                       Col(sh, "uptime")}
        extraJSON == BuildExtraJSON(row, mappedCols)
        hashKeys == HashKeys("cam_id:", 0, camID, camID # "", extraJSON)
    IN  Inserted(vesselID, ts, HashRow(vesselID, ts, "cctv", hashKeys),
                 [cam_id |-> camID, status |-> status,
                  uptime_percent |-> uptimePercent],
                 extraJSON)

ImpactRow(sh, i, row, vesselID, defaultTS) ==
    LET ts == ResolveTS(sh, row, defaultTS)
        sensorID == StrAt(sh, row, "sensor_id")
        accelG == FloatAt(sh, row, "accel")
        shockG == FloatAt(sh, row, "shock")
        notes == StrAt(sh, row, "notes")
        mappedCols == {Col(sh, "timestamp"), Col(sh, "sensor_id"), Col(sh, "accel"),
                       Col(sh, "shock"), Col(sh, "notes")}
        extraJSON == BuildExtraJSON(row, mappedCols)
        hashKeys == HashKeys("sensor_id:", 0, sensorID, sensorID # "", extraJSON)
    IN  Inserted(vesselID, ts, HashRow(vesselID, ts, "impact", hashKeys),
                 [sensor_id |-> sensorID, accel_g |-> accelG, shock_g |-> shockG,
                  notes |-> notes],
                 extraJSON)

\* processLocationFromShipInfo on the ship-info sheet's one data row: the
\* warnings, and whether a location row is inserted.
LocationRow(sh, row, vesselID, defaultTS) ==
    LET ts == ResolveTS(sh, row, defaultTS)
        latitude == FloatAt(sh, row, "latitude")
        longitude == FloatAt(sh, row, "longitude")
        course == FloatAt(sh, row, "course")
        speed == FloatAt(sh, row, "speed")
        status == StrAt(sh, row, "status")
        warns == ValidateLocationData(latitude, longitude, course, speed)
        extraJSON == BuildExtraJSON(row, sh.locCols)
        hashKeys == HashKeys("status:", 0, status, status # "", extraJSON)
    IN  IF Len(warns) > 0
        THEN [warns |-> <<[row |-> 0, stream |-> "location", msgs |-> warns]>>,
              insert |-> FALSE, row |-> NoRow]
        ELSE IF latitude = Null /\ longitude = Null /\ course = Null
                /\ speed = Null /\ status = ""
        THEN [warns |-> <<>>, insert |-> FALSE, row |-> NoRow]
        ELSE Inserted(vesselID, ts, HashRow(vesselID, ts, "location", hashKeys),
                      [latitude |-> latitude, longitude |-> longitude,
                       course_degrees |-> course, speed_knots |-> speed,
                       status |-> status],
                      extraJSON)

\* The switch of ProcessFile on the lower-cased sheet name: the first case
\* whose substring the name contains; "" when none does.  sh.name is the
\* set of those substrings that the name contains.
Classify(sh) ==
    IF "engine" \in sh.name THEN "engines"
    ELSE IF "fuel" \in sh.name THEN "fuel"
    ELSE IF "generator" \in sh.name THEN "generators"
    ELSE IF "cctv" \in sh.name THEN "cctv"
    ELSE IF "impact" \in sh.name \/ "vibration" \in sh.name THEN "impact"
    ELSE ""

ProcessRow(stream, sh, i, row, vesselID, defaultTS) ==
    CASE stream = "engines" -> EngineRow(sh, i, row, vesselID, defaultTS)
      [] stream = "fuel" -> FuelRow(sh, i, row, vesselID, defaultTS)
      [] stream = "generators" -> GeneratorRow(sh, i, row, vesselID, defaultTS)
      [] stream = "cctv" -> CCTVRow(sh, i, row, vesselID, defaultTS)
      [] OTHER -> ImpactRow(sh, i, row, vesselID, defaultTS)

\* processShipInfo: the first sheet whose name contains "ship" and "info";
\* 0 when there is none.
ShipInfoSheet(wb) ==
    LET hit == {k \in DOMAIN wb.sheets :
                    "ship" \in wb.sheets[k].name /\ "info" \in wb.sheets[k].name}
    IN  IF hit = {} THEN 0 ELSE CHOOSE k \in hit : \A m \in hit : k <= m

(***************************************************************************)
(* The workbooks of the model (the bytes of a file are named by a letter). *)
(***************************************************************************)
ShipSheet(imo, name, flag, lat) ==
    [name |-> {"ship", "info"}, readable |-> TRUE,
     find |-> [imo |-> "IMO", name |-> "Vessel Name", flag |-> "Flag",
               latitude |-> "Latitude"],
     m3 |-> {}, locCols |-> {"IMO", "Vessel Name", "Latitude"},
     rows |-> << ("IMO" :> imo) @@ ("Vessel Name" :> name) @@ ("Flag" :> flag)
                 @@ ("Latitude" :> lat) >>]

EngineSheet(rows) ==
    [name |-> {"engine"}, readable |-> TRUE,
     find |-> [timestamp |-> "Timestamp", engine_no |-> "Engine", rpm |-> "RPM"],
     m3 |-> {}, locCols |-> {}, rows |-> rows]

EngineCells(ts, no, rpm) ==
    ("Timestamp" :> ts) @@ ("Engine" :> no) @@ ("RPM" :> rpm)

FuelSheet(rows) ==
    [name |-> {"fuel"}, readable |-> TRUE,
     find |-> [tank_no |-> "Tank", capacity |-> "Capacity(m3)"],
     m3 |-> {"Capacity(m3)"}, locCols |-> {}, rows |-> rows]

GeneratorSheet(rows) ==
    [name |-> {"generator"}, readable |-> TRUE,
     find |-> [gen_no |-> "Gen", frequency |-> "Freq"],
     m3 |-> {}, locCols |-> {}, rows |-> rows]

CCTVSheet(rows) ==
    [name |-> {"cctv"}, readable |-> TRUE,
     find |-> [cam_id |-> "Camera", status |-> "Status"],
     m3 |-> {}, locCols |-> {}, rows |-> rows]

\* A sheet of the given name with the headers the mapper resolved.
Sheet(name, find, rows) ==
    [name |-> name, readable |-> TRUE, find |-> find, m3 |-> {}, locCols |-> {},
     rows |-> rows]

\* Data rows with every validated field of their stream.
EngineFields(no, rpm, oil) ==
    ("Engine" :> NumCell(no)) @@ ("RPM" :> NumCell(rpm)) @@ ("Oil" :> NumCell(oil))

FuelFields(no, cap, cur) ==
    ("Tank" :> NumCell(no)) @@ ("Capacity" :> NumCell(cap))
    @@ ("Current" :> NumCell(cur))

GeneratorFields(no, load, volt, freq, rate) ==
    ("Gen" :> NumCell(no)) @@ ("Load" :> NumCell(load)) @@ ("Volt" :> NumCell(volt))
    @@ ("Freq" :> NumCell(freq)) @@ ("Rate" :> NumCell(rate))

\* Workbook V: rows at and beyond the limits of the validators, bad rows
\* before good ones.
ValidatorSheets ==
    << Sheet({"engine"},
             [engine_no |-> "Engine", rpm |-> "RPM", oil_pressure |-> "Oil"],
             << EngineFields(1, -1, 3), EngineFields(2, 0, 0),
                EngineFields(3, 5, -1), EngineFields(4, -1, -1),
                EngineFields(5, 5, 3) >>),
       Sheet({"fuel"},
             [tank_no |-> "Tank", capacity |-> "Capacity", current |-> "Current"],
             << FuelFields(1, 10, -1), FuelFields(2, 10, 0),
                FuelFields(3, 10, 11), FuelFields(4, 10, 10) >>),
       Sheet({"generator"},
             [gen_no |-> "Gen", load |-> "Load", voltage |-> "Volt",
              frequency |-> "Freq", fuel_rate |-> "Rate"],
             << GeneratorFields(1, -1, 0, 50, 0), GeneratorFields(2, 0, 0, 45, 0),
                GeneratorFields(3, 5, 5, 44, 5), GeneratorFields(4, 5, 5, 70, 5),
                GeneratorFields(5, 5, 5, 71, 5), GeneratorFields(6, 5, -1, 50, 5),
                GeneratorFields(7, 5, 5, 50, -1), GeneratorFields(8, 5, 5, 50, 5) >>) >>

Workbooks ==
    [A |-> [valid |-> TRUE,
            sheets |-> << ShipSheet(StrCell("1111111"), StrCell("Ever Given"),
                                    StrCell("PA"), NumCell(10)),
                          EngineSheet(<< EngineCells(NumCell(40), NumCell(1), NumCell(5)),
                                         EngineCells(NumCell(40), NumCell(2), NumCell(-1)) >>) >>],
     B |-> [valid |-> TRUE,
            sheets |-> << ShipSheet(StrCell("1111111"), StrCell("Ever Given"),
                                    StrCell("LR"), NumCell(10)),
                          EngineSheet(<< EngineCells(NumCell(40), NumCell(1), NumCell(7)),
                                         EngineCells(NumCell(42), NumCell(1), NumCell(3)) >>) >>],
     C |-> [valid |-> TRUE,
            sheets |-> << EngineSheet(<< EngineCells(NumCell(40), NumCell(1), NumCell(9)),
                                         EngineCells(NumCell(42), NumCell(2), NumCell(9)) >>),
                          FuelSheet(<< ("Tank" :> NumCell(1))
                                       @@ ("Capacity(m3)" :> NumCell(10)) >>) >>],
     D |-> [valid |-> TRUE,
            sheets |-> << ShipSheet(EmptyCell, EmptyCell, StrCell("PA"), NumCell(95)),
                          CCTVSheet(<< ("Camera" :> StrCell("cam1"))
                                       @@ ("Status" :> StrCell("OK")) >>) >>],
     E |-> [valid |-> TRUE,
            sheets |-> << [ShipSheet(EmptyCell, EmptyCell, EmptyCell, EmptyCell)
                              EXCEPT !.rows = <<>>],
                          GeneratorSheet(<< ("Gen" :> NumCell(1))
                                            @@ ("Freq" :> NumCell(44)) >>),
                          EngineSheet(<< EngineCells(BadCell, NumCell(1), NumCell(9)) >>) >>],
     X |-> [valid |-> FALSE, sheets |-> <<>>],
     V |-> [valid |-> TRUE, sheets |-> ValidatorSheets],
     U |-> [valid |-> TRUE,
            sheets |-> << [EngineSheet(<< EngineCells(NumCell(40), NumCell(1), NumCell(5)) >>)
                              EXCEPT !.readable = FALSE],
                          GeneratorSheet(<< ("Gen" :> NumCell(1))
                                            @@ ("Freq" :> NumCell(50)) >>),
                          FuelSheet(<<>>),
                          CCTVSheet(<< ("Camera" :> StrCell("cam1"))
                                       @@ ("Status" :> StrCell("OK")) >>) >>],
     T |-> [valid |-> TRUE,
            sheets |-> << GeneratorSheet(<< ("Gen" :> NumCell(1))
                                            @@ ("Freq" :> NumCell(50)) >>),
                          CCTVSheet(<< ("Camera" :> StrCell("cam1"))
                                       @@ ("Status" :> StrCell("OK")) >>) >>],
     W |-> [valid |-> TRUE,
            sheets |-> << EngineSheet(<< EngineCells(NumCell(40), NumCell(1), NumCell(5)),
                                         EngineCells(NumCell(42), NumCell(1), NumCell(5)) >>),
                          EngineSheet(<< EngineCells(NumCell(44), NumCell(2), NumCell(5)) >>) >>],
     Y |-> [valid |-> TRUE,
            sheets |-> << EngineSheet(<< EngineCells(NumCell(40), NumCell(1), NumCell(5)) >>),
                          EngineSheet(<<>>) >>],
     M |-> [valid |-> TRUE,
            sheets |-> << Sheet({}, [rpm |-> "RPM"], << ("RPM" :> NumCell(-1)) >>),
                          ShipSheet(StrCell("1111111"), StrCell("Ever Given"),
                                    StrCell("PA"), NumCell(10)),
                          Sheet({"engine", "fuel"},
                                [engine_no |-> "Engine", tank_no |-> "Engine"],
                                << ("Engine" :> NumCell(3)) >>),
                          Sheet({"vibration"}, [sensor_id |-> "Sensor"],
                                << ("Sensor" :> StrCell("s1")) >>),
                          Sheet({"ship", "info"}, [latitude |-> "Latitude"],
                                << ("Latitude" :> NumCell(10)) >>) >>],
     S |-> [valid |-> TRUE,
            sheets |-> << EngineSheet(<< EngineCells(NumCell(40), NumCell(1), NumCell(5)),
                                         EngineCells(BadCell, NumCell(2), NumCell(5)),
                                         EngineCells(EmptyCell, NumCell(3), NumCell(5)),
                                         ("Engine" :> NumCell(4)) @@ ("RPM" :> NumCell(5)),
                                         EngineCells(NumCell(42), NumCell(5), NumCell(5)) >>),
                          CCTVSheet(<< ("Camera" :> StrCell("cam1"))
                                       @@ ("Status" :> StrCell("OK")) >>) >>],
     R |-> [valid |-> TRUE,
            sheets |-> << EngineSheet(<< EngineCells(NumCell(40), NumCell(1), NumCell(5)),
                                         EngineCells(NumCell(41), NumCell(1), NumCell(7)),
                                         EngineCells(NumCell(40), NumCell(1), NumCell(9)) >>) >>],
     N |-> [valid |-> TRUE,
            sheets |-> << [ShipSheet(StrCell("1111111"), StrCell("Ever Given"),
                                     StrCell("PA"), EmptyCell)
                              EXCEPT !.name = {"ship", "info", "engine"}] >>]]

\* The files sent to the server of Spec, and those sent to the server of Api.
Files == {"A", "B", "C", "D", "E", "X"}

ApiFiles == {"A", "B", "D", "V", "U", "T"}

\* Workbooks whose sheets try the loop over the sheets: two sheets of one
\* stream, names with no or several patterns, rows without a time, rows
\* of one engine within one second.
BookFiles == {"W", "Y", "M", "N", "S", "R"}

\* The parameters of a call: none, only vessel_name, or only imo;
\* period_start is given, or nil (the name-only call) and the clock is read.
Params ==
    {[imo |-> "", name |-> "", periodStart |-> Some(20)],
     [imo |-> "", name |-> "Ever Given", periodStart |-> Null],
     [imo |-> "2222222", name |-> "", periodStart |-> Some(20)]}

\* time.Now() of the n-th call, in half seconds: the clock moves on
\* between two calls, by less than a second or into the next one.
Now(n) == 22 + n

\* fmt.Sprintf("Vessel-%s", imo)
DefaultName(imo) == IF imo = "1111111" THEN "Vessel-1111111" ELSE "Vessel-2222222"

(***************************************************************************)
(* ProcessFile, statement by statement.  A step takes the database and the *)
(* locals of the call, runs one SQL statement and the code after it up to  *)
(* the next statement, and gives the new database, the new locals and,     *)
(* when the call ends in this step, its outcome.                           *)
(***************************************************************************)
IdleLoc ==
    [pc |-> "idle", file |-> "", imoP |-> "", nameP |-> "", uploadedAt |-> 0,
     imo |-> "", name |-> "", flag |-> "", type |-> "",
     existingID |-> 0, vesselID |-> 0,
     sheet |-> 0, row |-> 0, inserted |-> 0,
     rowsInserted |-> <<>>, warnings |-> <<>>, pending |-> {},
     seen |-> 0, web |-> FALSE]

Ret(d, l, out) == [db |-> d, loc |-> l, out |-> out]

\* What the caller gets: an IngestResponse (status "ingested" or
\* "already_ingested"), an error value (status "error"), or no return at all
\* because the call panicked (status "panic").  seen is the number of calls
\* that had ended when this one began.
Outcome(l, status, uploadID, vesselID) ==
    [file |-> l.file, imoP |-> l.imoP, nameP |-> l.nameP,
     uploadedAt |-> l.uploadedAt, seen |-> l.seen,
     status |-> status, uploadID |-> uploadID, vesselID |-> vesselID,
     rowsInserted |-> IF status = "ingested" THEN l.rowsInserted ELSE <<>>,
     warnings |-> IF status = "ingested" THEN l.warnings ELSE <<>>]

Return(d, l, status, uploadID, vesselID) ==
    Ret(d, IdleLoc, <<Outcome(l, status, uploadID, vesselID)>>)

\* uploadID := int64(1); return &models.IngestResponse{Status: "ingested", ...}
ReturnIngested(d, l) == Return(d, l, "ingested", Some(1), Some(l.vesselID))

\* A location count of one whether a location row was inserted or not.
ToSheets_Counted(l, vesselID, locationCount, locationWarnings) ==
    [l EXCEPT !.pc = "sheets", !.vesselID = vesselID,
              !.sheet = 1, !.row = 1, !.inserted = 0,
              !.rowsInserted = ("location" :> 1),
              !.warnings = locationWarnings]

\* After processShipInfo returned: the location count and warnings open
\* rowsInserted and warnings; then the loop over the sheets.
ToSheets(l, vesselID, locationCount, locationWarnings) ==
    [l EXCEPT !.pc = "sheets", !.vesselID = vesselID,
              !.sheet = 1, !.row = 1, !.inserted = 0,
              !.rowsInserted = IF locationCount > 0
                               THEN ("location" :> locationCount)
                               ELSE <<>>,
              !.warnings = locationWarnings]

\* rowsInserted[stream] = count, when the processor of a sheet returns.
SetCount(m, stream, count) == (stream :> count) @@ m

\* The row at l.row of sheet sh is done with result r: count it, keep its
\* warnings, go to the next row or leave the sheet.
AfterRow(l, stream, sh, r) ==
    LET n == IF r.insert THEN l.inserted + 1 ELSE l.inserted
        l2 == [l EXCEPT !.warnings = @ \o r.warns]
    IN  IF l.row < Len(sh.rows)
        THEN [l2 EXCEPT !.row = @ + 1, !.inserted = n]
        ELSE [l2 EXCEPT !.sheet = @ + 1, !.row = 1, !.inserted = 0,
                        !.rowsInserted = SetCount(@, stream, n)]

\* A sheet error that leaves no warning.
SheetError_Silent(l, stream) ==
    [l EXCEPT !.sheet = @ + 1, !.rowsInserted = SetCount(@, stream, 0)]

\* A sheet that cannot be read or has fewer than two rows: one warning.
SheetError(l, stream) ==
    [l EXCEPT !.sheet = @ + 1,
              !.rowsInserted = SetCount(@, stream, 0),
              !.warnings = Append(@, [row |-> 0, stream |-> stream,
                                      msgs |-> <<"error reading sheet">>])]

LocationOf(l) ==
    LET wb == Workbooks[l.file]
        sh == wb.sheets[ShipInfoSheet(wb)]
    IN  LocationRow(sh, sh.rows[1], l.vesselID, l.uploadedAt)

\* The code between two statements: rows that are skipped, sheets that no
\* case matches or that cannot be read, the end of the loop, the return.
RECURSIVE Settle(_, _)
Settle(d, l) ==
    IF l.pc = "location"
    THEN IF LocationOf(l).insert THEN Ret(d, l, <<>>)
         ELSE Settle(d, ToSheets(l, l.vesselID, 0, LocationOf(l).warns))
    ELSE IF l.pc = "sheets"
    THEN LET wb == Workbooks[l.file]
         IN  IF l.sheet > Len(wb.sheets)
             THEN Settle(d, [l EXCEPT !.pc = "latest",
                                      !.pending = {s \in DOMAIN l.rowsInserted :
                                                     l.rowsInserted[s] > 0}])
             ELSE LET sh == wb.sheets[l.sheet]
                      stream == Classify(sh)
                  IN  IF stream = ""
                      THEN Settle(d, [l EXCEPT !.sheet = @ + 1])
                      ELSE IF ~sh.readable \/ Len(sh.rows) = 0
                      THEN Settle(d, SheetError(l, stream))
                      ELSE LET r == ProcessRow(stream, sh, l.row, sh.rows[l.row],
                                               l.vesselID, l.uploadedAt)
                           IN  IF r.insert THEN Ret(d, l, <<>>)
                               ELSE Settle(d, AfterRow(l, stream, sh, r))
    ELSE IF l.pc = "latest" /\ l.pending = {}
    THEN ReturnIngested(d, l)
    ELSE Ret(d, l, <<>>)

\* ProcessFile up to the ship-info step: file hash, duplicate check, OpenReader.
CheckDuplicate(d, file, imoP, nameP, uploadedAt, seen) ==
    LET l == [IdleLoc EXCEPT !.file = file, !.imoP = imoP, !.nameP = nameP,
                             !.uploadedAt = uploadedAt, !.seen = seen]
        found == SelectUploadByHash(d, SHA256Hex(file))
    IN  IF found # {}
        THEN Return(d, l, "already_ingested", Some(CHOOSE id \in found : TRUE), Null)
        ELSE IF ~Workbooks[file].valid
        THEN Return(d, l, "error", Null, Null)
        ELSE Ret(d, [l EXCEPT !.pc = "shipinfo"], <<>>)

\* processShipInfo without a usable ship-info sheet: an unconditional INSERT.
FallbackVessel(d, l) ==
    IF l.imoP # ""
    THEN LET name == IF l.nameP = "" THEN DefaultName(l.imoP) ELSE l.nameP
             r == InsertVessel(d, l.imoP, name, "", "")
         IN  IF r.ok THEN Settle(r.db, ToSheets(l, r.id, 0, <<>>))
             ELSE Return(d, l, "error", Null, Null)
    ELSE IF l.nameP = ""
    THEN Return(d, l, "error", Null, Null)
    ELSE LET r == InsertVessel(d, "", l.nameP, "", "")
         IN  Settle(r.db, ToSheets(l, r.id, 0, <<>>))

\* "Create new vessel": *name is dereferenced; a nil name is a panic.
CreateVessel(d, l) ==
    IF l.name = ""
    THEN Return(d, l, "panic", Null, Null)
    ELSE LET r == InsertVessel(d, l.imo, l.name, l.flag, l.type)
         IN  IF r.ok
             THEN Settle(r.db, [l EXCEPT !.pc = "location", !.vesselID = r.id])
             ELSE Return(d, l, "error", Null, Null)

\* The sheet's IMO taken before the parameter.
ResolveIMO_SheetFirst(providedIMO, sh, data) ==
    IF StrAt(sh, data, "imo") # "" THEN StrAt(sh, data, "imo") ELSE providedIMO

\* The IMO of the call: the parameter when given, else the sheet's cell.
ResolveIMO(providedIMO, sh, data) ==
    IF providedIMO # "" THEN providedIMO ELSE StrAt(sh, data, "imo")

\* The name: the sheet's cell, else the parameter, else "Vessel-<imo>", else nil.
ResolveName(vesselName, imo, sh, data) ==
    IF StrAt(sh, data, "name") # "" THEN StrAt(sh, data, "name")
    ELSE IF vesselName # "" THEN vesselName
    ELSE IF imo # "" THEN DefaultName(imo)
    ELSE ""

\* processShipInfo up to and including its first statement.
ShipInfoStep(d, l) ==
    LET wb == Workbooks[l.file]
        k == ShipInfoSheet(wb)
    IN  IF k = 0 \/ ~wb.sheets[k].readable \/ Len(wb.sheets[k].rows) = 0
        THEN FallbackVessel(d, l)
        ELSE LET sh == wb.sheets[k]
                 data == sh.rows[1]
                 imo == ResolveIMO(l.imoP, sh, data)
                 l2 == [l EXCEPT !.imo = imo,
                                 !.name = ResolveName(l.nameP, imo, sh, data),
                                 !.flag = StrAt(sh, data, "flag"),
                                 !.type = StrAt(sh, data, "type")]
                 found == SelectVesselByIMO(d, imo)
             IN  IF imo = "" THEN CreateVessel(d, l2)
                 ELSE IF found # {}
                 THEN Ret(d, [l2 EXCEPT !.pc = "update",
                                        !.existingID = CHOOSE id \in found : TRUE], <<>>)
                 ELSE Ret(d, [l2 EXCEPT !.pc = "insert"], <<>>)

\* "Update existing vessel".
UpdateStep(d, l) ==
    Settle(UpdateVessel(d, l.existingID, l.name, l.flag, l.type),
           [l EXCEPT !.pc = "location", !.vesselID = l.existingID])

\* processLocationFromShipInfo's INSERT OR IGNORE; err == nil counts the row,
\* ignored or not.
LocationStep(d, l) ==
    LET r == LocationOf(l)
    IN  Settle(InsertOrIgnore(d, "location", r.row),
               ToSheets(l, l.vesselID, 1, r.warns))

\* The INSERT OR IGNORE of the data row the loop stands at.
SheetStep(d, l) ==
    LET sh == Workbooks[l.file].sheets[l.sheet]
        stream == Classify(sh)
        r == ProcessRow(stream, sh, l.row, sh.rows[l.row], l.vesselID, l.uploadedAt)
    IN  Settle(InsertOrIgnore(d, stream, r.row), AfterRow(l, stream, sh, r))

\* updateStreamLatest, one stream of the map (Go ranges over it in any order).
LatestStep(d, l, stream) ==
    Settle(ReplaceLatest(d, l.vesselID, stream, l.uploadedAt),
           [l EXCEPT !.pending = @ \ {stream}])

\* The next step of a call that runs alone.
StepOf(d, l) ==
    CASE l.pc = "shipinfo" -> ShipInfoStep(d, l)
      [] l.pc = "update" -> UpdateStep(d, l)
      [] l.pc = "insert" -> CreateVessel(d, l)
      [] l.pc = "location" -> LocationStep(d, l)
      [] l.pc = "sheets" -> SheetStep(d, l)
      [] OTHER -> LatestStep(d, l, CHOOSE s \in l.pending : TRUE)

\* The element of a one-element set.
Only(S) == CHOOSE x \in S : TRUE

\* The steps of a call that runs alone, up to its outcome.
RECURSIVE RunFrom(_, _)
RunFrom(d, l) ==
    Only({IF r.out # <<>> THEN [db |-> r.db, out |-> r.out[1]]
          ELSE RunFrom(r.db, r.loc) : r \in {StepOf(d, l)}})

\* One whole ProcessFile call with no other call in flight.
ProcessFile(d, file, imoP, nameP, uploadedAt) ==
    LET r == CheckDuplicate(d, file, imoP, nameP, uploadedAt, 0)
    IN  IF r.out # <<>> THEN [db |-> r.db, out |-> r.out[1]]
        ELSE RunFrom(r.db, r.loc)

(***************************************************************************)
(* The state machine.  The database file outlives the server and Migrate   *)
(* only creates the tables that are missing, so the server may start on    *)
(* an empty database or on one that earlier runs filled.  PriorDB is such  *)
(* a database: workbook A was ingested and its upload row was recorded     *)
(* (the row the commented-out INSERT of ProcessFile used to write).        *)
(***************************************************************************)
PriorRun == ProcessFile(EmptyDB, "A", "", "", 20)

PriorDB ==
    [PriorRun.db EXCEPT !.uploads = {[id |-> 1,
                                      vessel_id |-> PriorRun.out.vesselID[1],
                                      file_hash |-> SHA256Hex("A")]}]

\* No request is being served, no page has been asked for, nothing is
\* being computed.
Quiet ==
    /\ loc = [w \in Workers |-> IdleLoc]
    /\ log = <<>>
    /\ calls = 0
    /\ http = <<>>
    /\ scan = <<>>
    /\ calc = <<>>

Init ==
    /\ db \in {EmptyDB, PriorDB}
    /\ allowUnsafeDuplicateIngest = FALSE
    /\ Quiet

\* An answer that ignores ALLOW_UNSAFE_DUPLICATE_INGEST.
Answer_Strict(allow, out) ==
    [file |-> out.file, imoP |-> out.imoP, nameP |-> out.nameP,
     status |-> out.status,
     code |-> IF out.status = "panic" THEN 0
              ELSE IF out.status = "error" THEN 500
              ELSE IF out.status = "already_ingested" THEN 409
              ELSE 200]

\* The tail of PostIngestXLSX: the answer to what ProcessFile returned.  A
\* panic is not recovered; the client gets no answer (code 0).
Answer(allow, out) ==
    [file |-> out.file, imoP |-> out.imoP, nameP |-> out.nameP,
     status |-> out.status,
     code |-> IF out.status = "panic" THEN 0
              ELSE IF out.status = "error" THEN 500
              ELSE IF out.status = "already_ingested" /\ ~allow THEN 409
              ELSE 200]

\* A step of worker w with result r; a call that ends is appended to log,
\* and answered when it came in through the handler.
Apply(w, r) ==
    /\ db' = r.db
    /\ loc' = [loc EXCEPT ![w] = r.loc]
    /\ log' = log \o r.out
    /\ http' = IF loc[w].web /\ r.out # <<>>
               THEN Append(http, Answer(allowUnsafeDuplicateIngest, r.out[1]))
               ELSE http
    /\ UNCHANGED <<allowUnsafeDuplicateIngest, scan, calc>>

\* A request is served by the first goroutine that is free (the goroutines
\* are alike, so which one serves it makes no difference).
Start(w) ==
    /\ loc[w].pc = "idle"
    /\ w = "w1" \/ loc["w1"].pc # "idle"
    /\ calls < MaxCalls
    /\ calls' = calls + 1
    /\ \E file \in Files, q \in Params :
          Apply(w, CheckDuplicate(db, file, q.imo, q.name,
                                  IF q.periodStart = Null THEN Now(calls)
                                  ELSE q.periodStart[1],
                                  Len(log)))

ShipInfo(w) ==
    /\ loc[w].pc = "shipinfo"
    /\ Apply(w, ShipInfoStep(db, loc[w]))
    /\ UNCHANGED calls

VesselUpdate(w) ==
    /\ loc[w].pc = "update"
    /\ Apply(w, UpdateStep(db, loc[w]))
    /\ UNCHANGED calls

VesselInsert(w) ==
    /\ loc[w].pc = "insert"
    /\ Apply(w, CreateVessel(db, loc[w]))
    /\ UNCHANGED calls

Location(w) ==
    /\ loc[w].pc = "location"
    /\ Apply(w, LocationStep(db, loc[w]))
    /\ UNCHANGED calls

Sheets(w) ==
    /\ loc[w].pc = "sheets"
    /\ Apply(w, SheetStep(db, loc[w]))
    /\ UNCHANGED calls

UpdateLatest(w) ==
    /\ loc[w].pc = "latest"
    /\ \E stream \in loc[w].pending : Apply(w, LatestStep(db, loc[w], stream))
    /\ UNCHANGED calls

Next ==
    \E w \in Workers :
        \/ Start(w)
        \/ ShipInfo(w)
        \/ VesselUpdate(w)
        \/ VesselInsert(w)
        \/ Location(w)
        \/ Sheets(w)
        \/ UpdateLatest(w)

Spec == Init /\ [][Next]_vars

(***************************************************************************)
(* Interrupted calls.  ProcessFile opens no transaction: each statement is *)
(* committed on its own, so a process that is killed between two           *)
(* statements leaves the writes made so far.  The caller then sees no      *)
(* result (status "killed") and may call again.  One call at a time.       *)
(***************************************************************************)
Kill(w) ==
    /\ loc[w].pc # "idle"
    /\ loc' = [loc EXCEPT ![w] = IdleLoc]
    /\ log' = Append(log, Outcome(loc[w], "killed", Null, Null))
    /\ UNCHANGED <<db, calls, allowUnsafeDuplicateIngest, http, scan, calc>>

RetryNext ==
    \/ Start("w1")
    \/ ShipInfo("w1")
    \/ VesselUpdate("w1")
    \/ VesselInsert("w1")
    \/ Location("w1")
    \/ Sheets("w1")
    \/ UpdateLatest("w1")
    \/ Kill("w1")

Retry == Init /\ [][RetryNext]_vars

(***************************************************************************)
(* The ingest endpoint.  PostIngestXLSX rejects a request without imo and  *)
(* vessel_name, calls ProcessFile, and answers; the flag                   *)
(* ALLOW_UNSAFE_DUPLICATE_INGEST is read once, when the server starts.     *)
(* One request at a time.                                                  *)
(***************************************************************************)
ApiInit ==
    /\ db \in {EmptyDB, PriorDB}
    /\ allowUnsafeDuplicateIngest \in BOOLEAN
    /\ Quiet

BadRequest(file, q) ==
    [file |-> file, imoP |-> q.imo, nameP |-> q.name, status |-> "error",
     code |-> 400]

PostIngestXLSX(w) ==
    /\ loc[w].pc = "idle"
    /\ calls < MaxCalls
    /\ calls' = calls + 1
    /\ UNCHANGED <<allowUnsafeDuplicateIngest, scan, calc>>
    /\ \E file \in ApiFiles, q \in Params :
          IF q.imo = "" /\ q.name = ""
          THEN /\ http' = Append(http, BadRequest(file, q))
               /\ UNCHANGED <<db, loc, log>>
          ELSE LET r == CheckDuplicate(db, file, q.imo, q.name,
                                       IF q.periodStart = Null THEN Now(calls)
                                       ELSE q.periodStart[1],
                                       Len(log))
               IN  /\ db' = r.db
                   /\ loc' = [loc EXCEPT ![w] = IF r.out = <<>>
                                                THEN [r.loc EXCEPT !.web = TRUE]
                                                ELSE r.loc]
                   /\ log' = log \o r.out
                   /\ http' = IF r.out = <<>> THEN http
                              ELSE Append(http, Answer(allowUnsafeDuplicateIngest,
                                                       r.out[1]))

ApiNext ==
    \/ PostIngestXLSX("w1")
    \/ ShipInfo("w1")
    \/ VesselUpdate("w1")
    \/ VesselInsert("w1")
    \/ Location("w1")
    \/ Sheets("w1")
    \/ UpdateLatest("w1")

Api == ApiInit /\ [][ApiNext]_vars

(***************************************************************************)
(* ProcessFile called with the workbooks of BookFiles, one call after the  *)
(* other.                                                                  *)
(***************************************************************************)
Upload(w) ==
    /\ loc[w].pc = "idle"
    /\ calls < MaxCalls
    /\ calls' = calls + 1
    /\ \E file \in BookFiles, q \in Params :
          Apply(w, CheckDuplicate(db, file, q.imo, q.name,
                                  IF q.periodStart = Null THEN Now(calls)
                                  ELSE q.periodStart[1],
                                  Len(log)))

BooksNext ==
    \/ Upload("w1")
    \/ ShipInfo("w1")
    \/ VesselUpdate("w1")
    \/ VesselInsert("w1")
    \/ Location("w1")
    \/ Sheets("w1")
    \/ UpdateLatest("w1")

Books == Init /\ [][BooksNext]_vars

(***************************************************************************)
(* Cursors.  A cursor is the base64 text of "<RFC3339 time>|<id>"; the     *)
(* time is one symbol of the text (whole seconds), the id is written in    *)
(* decimal digits.                                                         *)
(***************************************************************************)
\* The largest row id a cursor is made of.
MaxID == 12

\* time.Time{}: before every timestamp of a reading.
ZeroTime == 0

\* Timestamps in half seconds: 40 and 42 are whole seconds, 41 and 43 are
\* half a second later.
CursorTimes == {40, 41, 42, 43}
CursorIDs == (0 - MaxID)..MaxID

RECURSIVE Digits(_)
Digits(n) ==
    IF n < 10 THEN <<Chr(48 + n)>>
    ELSE Digits(n \div 10) \o <<Chr(48 + (n % 10))>>

\* fmt.Sprintf("%d", n)
FormatInt(n) == IF n < 0 THEN <<Chr(45)>> \o Digits(0 - n) ELSE Digits(n)

RECURSIVE Value(_)
Value(s) == IF s = <<>> THEN 0 ELSE 10 * Value(SubSeq(s, 1, Len(s) - 1)) + (s[Len(s)].n - 48)

\* strconv.ParseInt(s, 10, 64): an optional sign, then decimal digits.
ParseInt(s) ==
    LET signed == s # <<>> /\ s[1].p = "chr" /\ s[1].n \in {43, 45}
        body == IF signed THEN Tail(s) ELSE s
        ok == /\ body # <<>>
              /\ \A i \in DOMAIN body : body[i].p = "chr" /\ body[i].n \in 48..57
    IN  IF ~ok THEN [ok |-> FALSE, n |-> 0]
        ELSE [ok |-> TRUE,
              n |-> IF signed /\ s[1].n = 45 THEN 0 - Value(body) ELSE Value(body)]

\* time.Parse(time.RFC3339, s)
ParseRFC3339(s) ==
    IF Len(s) = 1 /\ s[1].p = "time"
    THEN [ok |-> TRUE, ts |-> 2 * s[1].n]
    ELSE [ok |-> FALSE, ts |-> ZeroTime]

\* strings.Split(s, sep)
RECURSIVE Split(_, _)
Split(s, sep) ==
    IF \A i \in DOMAIN s : s[i] # sep THEN <<s>>
    ELSE LET i == CHOOSE k \in DOMAIN s :
                      s[k] = sep /\ \A m \in 1..(k - 1) : s[m] # sep
         IN  <<SubSeq(s, 1, i - 1)>> \o Split(SubSeq(s, i + 1, Len(s)), sep)

\* base64.StdEncoding
EncodeToString(b) == <<"base64", b>>

EncodeCursor(ts, id) ==
    EncodeToString(TagKey("time", FormatRFC3339(ts), "") \o <<Pipe>> \o FormatInt(id))

Failed(msg) == [ts |-> ZeroTime, id |-> 0, err |-> msg]

DecodeCursor(s) ==
    IF s = <<>> THEN [ts |-> ZeroTime, id |-> 0, err |-> ""]
    ELSE IF s[1] # "base64" THEN Failed("invalid cursor format")
    ELSE LET parts == Split(s[2], Pipe)
         IN  IF Len(parts) # 2 THEN Failed("invalid cursor format")
             ELSE LET ts == ParseRFC3339(parts[1])
                      id == ParseInt(parts[2])
                  IN  IF ~ts.ok THEN Failed("invalid timestamp in cursor")
                      ELSE IF ~id.ok THEN Failed("invalid id in cursor")
                      ELSE [ts |-> ts.ts, id |-> id.n, err |-> ""]

\* Cursor texts a client can send that EncodeCursor did not make.
ForeignCursors ==
    {<<>>,
     <<"text", <<Chr(120)>>>>,
     EncodeToString(<<Chr(120)>>),
     EncodeToString(TagKey("time", 20, "") \o <<Pipe>> \o FormatInt(1) \o <<Pipe>>),
     EncodeToString(<<Chr(120), Pipe>> \o FormatInt(1)),
     EncodeToString(TagKey("time", 20, "") \o <<Pipe, Chr(120)>>),
     EncodeToString(TagKey("time", 20, "") \o <<Pipe>>),
     EncodeToString(TagKey("time", 20, "") \o <<Pipe, Chr(43)>> \o FormatInt(7))}

\* Nothing is served by the ingest endpoint.
NoIngest ==
    /\ db = EmptyDB
    /\ allowUnsafeDuplicateIngest = FALSE
    /\ loc = [w \in Workers |-> IdleLoc]
    /\ log = <<>>
    /\ calls = 0
    /\ http = <<>>

\* The round trip of the test TestEncodeDecode, over CursorTimes and
\* CursorIDs, and DecodeCursor on the cursors of ForeignCursors.
CursorInit ==
    /\ NoIngest
    /\ scan = <<>>
    /\ calc \in {[op |-> "pair", ts |-> ts, id |-> id] :
                    ts \in CursorTimes, id \in CursorIDs}
                \cup {[op |-> "cursor", cursor |-> c] : c \in ForeignCursors}

Encode ==
    /\ calc.op = "pair"
    /\ calc' = [op |-> "cursor", ts |-> calc.ts, id |-> calc.id,
                cursor |-> EncodeCursor(calc.ts, calc.id)]
    /\ UNCHANGED <<db, loc, log, calls, allowUnsafeDuplicateIngest, http, scan>>

Decode ==
    /\ calc.op = "cursor"
    /\ calc' = [calc EXCEPT !.op = "decoded"] @@ [out |-> DecodeCursor(calc.cursor)]
    /\ UNCHANGED <<db, loc, log, calls, allowUnsafeDuplicateIngest, http, scan>>

CursorNext == Encode \/ Decode

Cursor == CursorInit /\ [][CursorNext]_vars

(***************************************************************************)
(* The telemetry endpoint, for the stream "engines": one request is a      *)
(* query on engine_readings, a loop over its rows and the next cursor.     *)
(***************************************************************************)
\* The rows of engine_readings; their ids are 1..MaxRows.
MaxRows == 3

\* The pages a client asks for in one traversal.
MaxPages == 3

\* engine_readings as the endpoint reads it: id, vessel_id, engine_no, ts.
Tables ==
    {{[id |-> i, vessel_id |-> t[i][1], engine_no |-> 1 + (i % 2), ts |-> t[i][2]] :
         i \in 1..MaxRows} :
        t \in [1..MaxRows -> {1, 2} \X {40, 41, 42}]}

\* The query parameters: engine_no, from, to, limit (absent or parsed).
Queries ==
    [vesselID : {1}, engineNo : {Null, Some(1)}, from : {Null, Some(41)},
     to : {Null, Some(41)}, limit : {Null, Some(0), Some(1), Some(2)}]

\* limit := 200, replaced by a parameter in 1..1000
Limit(q) ==
    IF q.limit # Null /\ q.limit[1] > 0 /\ q.limit[1] <= 1000 THEN q.limit[1] ELSE 200

\* WHERE vessel_id = ? [AND engine_no = ?] [AND ts >= ?] [AND ts <= ?]
\* [AND (ts > ? OR (ts = ? AND id > ?))]: the last only for a cursor time
\* that is not the zero time.
Where(table, q, cursorTS, cursorID) ==
    {x \in table :
        /\ x.vessel_id = q.vesselID
        /\ q.engineNo # Null => x.engine_no = q.engineNo[1]
        /\ q.from # Null => x.ts >= q.from[1]
        /\ q.to # Null => x.ts <= q.to[1]
        /\ cursorTS # ZeroTime =>
              (x.ts > cursorTS \/ (x.ts = cursorTS /\ x.id > cursorID))}

Before(x, y) == x.ts < y.ts \/ (x.ts = y.ts /\ x.id < y.id)

\* ORDER BY ts, id
RECURSIVE OrderBy(_)
OrderBy(S) ==
    IF S = {} THEN <<>>
    ELSE LET x == CHOOSE y \in S : \A z \in S \ {y} : Before(y, z)
         IN  <<x>> \o OrderBy(S \ {x})

\* LIMIT ?
LimitTo(rows, n) == SubSeq(rows, 1, IF Len(rows) < n THEN Len(rows) ELSE n)

\* for rows.Next() && count < limit { count++; items = append(items, row) }
\* pos is the number of rows the result set has moved over: rows.Next() is
\* called, and moves on, before count is compared with limit.
RECURSIVE Loop(_, _, _, _)
Loop(rows, pos, limit, items) ==
    IF pos < Len(rows)
    THEN IF Len(items) < limit
         THEN Loop(rows, pos + 1, limit, Append(items, rows[pos + 1]))
         ELSE [pos |-> pos + 1, items |-> items]
    ELSE [pos |-> pos, items |-> items]

\* GetVesselTelemetry, from the cursor parameter to the response.
Page(table, q, cursor) ==
    LET c == DecodeCursor(cursor)
    IN  IF c.err # "" THEN [code |-> 400, items |-> <<>>, next |-> Null]
        ELSE LET limit == Limit(q)
                 rows == LimitTo(OrderBy(Where(table, q, c.ts, c.id)), limit + 1)
                 read == Loop(rows, 0, limit, <<>>)
                 last == read.items[Len(read.items)]
             IN  [code |-> 200,
                  items |-> read.items,
                  next |-> IF read.pos < Len(rows)
                           THEN Some(EncodeCursor(last.ts, last.id))
                           ELSE Null]

\* The cursors of a first request: none, cursors of the encoder, and one
\* that is no cursor.
FirstCursors ==
    {<<>>, EncodeCursor(40, 1), EncodeCursor(41, 2), <<"text", <<Chr(120)>>>>}

\* A table that does not change, a query, and the cursor of the first
\* request.
PagesInit ==
    /\ NoIngest
    /\ calc = <<>>
    /\ scan \in [table : Tables, q : Queries, first : FirstCursors,
                 next : {Null}, pages : {<<>>}]

\* The client sends the request: the first one with its first cursor, a
\* later one with the cursor of the page before.
GetVesselTelemetry ==
    /\ Len(scan.pages) < MaxPages
    /\ scan.pages = <<>> \/ scan.next # Null
    /\ \E r \in {Page(scan.table, scan.q,
                      IF scan.pages = <<>> THEN scan.first ELSE scan.next[1])} :
          scan' = [scan EXCEPT !.pages = Append(@, r), !.next = r.next]
    /\ UNCHANGED <<db, loc, log, calls, allowUnsafeDuplicateIngest, http, calc>>

PagesNext == GetVesselTelemetry

Pages == PagesInit /\ [][PagesNext]_vars

(***************************************************************************)
(* HashRow on its own, as TestHashRow calls it: twice with the same         *)
(* arguments, and once with arguments that differ in one place.            *)
(***************************************************************************)
\* The longest key text.
MaxKeyLen == 2

\* Key texts of the letter a and of the separator of strings.Join.
KeyTexts == UNION {[1..n -> {Chr(97), Pipe}] : n \in 0..MaxKeyLen}

\* keys ...string: no key, one or two.
KeyLists == {<<>>} \cup {<<k>> : k \in KeyTexts} \cup (KeyTexts \X KeyTexts)

\* Timestamps in half seconds: 40 and 41 lie in one second, 42 in the next.
HashArgs == [vesselID : {1, 2}, ts : {40, 41, 42}, stream : {"engines"}, keys : KeyLists]

\* The arguments that are x in all places but one.
OneChange(x) ==
    {[x EXCEPT !.vesselID = v] : v \in {1, 2}}
        \cup {[x EXCEPT !.ts = t] : t \in {40, 41, 42}}
        \cup {[x EXCEPT !.keys = k] : k \in KeyLists}

HashInit ==
    /\ NoIngest
    /\ scan = <<>>
    /\ \E a \in HashArgs : \E b \in OneChange(a) :
          calc = [op |-> "args", a |-> a, b |-> b]

\* hash1 := HashRow(a...); hash2 := HashRow(a...); hash3 := HashRow(b...).
\* sort.Strings(keys) sorts the caller's slice, so the second call gets the
\* keys of a as the first call left them.
Hash ==
    /\ calc.op = "args"
    /\ LET a == calc.a
           b == calc.b
       IN  calc' = [op |-> "hashed", a |-> a, b |-> b,
                    hash1 |-> HashRow(a.vesselID, a.ts, a.stream, a.keys),
                    hash2 |-> HashRow(a.vesselID, a.ts, a.stream, SortStrings(a.keys)),
                    hash3 |-> HashRow(b.vesselID, b.ts, b.stream, b.keys)]
    /\ UNCHANGED <<db, loc, log, calls, allowUnsafeDuplicateIngest, http, scan>>

HashNext == Hash

Hashes == HashInit /\ [][HashNext]_vars

(***************************************************************************)
(* The header mapper on its own.  A header is a sequence of characters;    *)
(* the letter a stands for the letters, in upper and in lower case.        *)
(***************************************************************************)
\* The longest header.
MaxHeaderLen == 2

HeaderChars == {"A", "a", " ", "-"}

HeaderTexts == UNION {[1..n -> HeaderChars] : n \in 0..MaxHeaderLen}

\* rows[0] of a sheet: no header, one or two.
HeaderRows == {<<>>} \cup {<<h>> : h \in HeaderTexts} \cup (HeaderTexts \X HeaderTexts)

\* The patterns of a FindHeader call: lower case, upper case (as in
\* "Tank ID"), with an underscore.
PatternTexts == {<<"a">>, <<"A">>, <<"_">>, <<"a", "_">>, <<"a", "a">>}

PatternLists == {<<p>> : p \in PatternTexts} \cup (PatternTexts \X PatternTexts)

\* strings.ToLower
ToLower(h) == [i \in DOMAIN h |-> IF h[i] = "A" THEN "a" ELSE h[i]]

\* strings.TrimSpace
RECURSIVE TrimSpace(_)
TrimSpace(h) ==
    IF h # <<>> /\ h[1] = " " THEN TrimSpace(Tail(h))
    ELSE IF h # <<>> /\ h[Len(h)] = " " THEN TrimSpace(SubSeq(h, 1, Len(h) - 1))
    ELSE h

\* strings.ReplaceAll(h, old, new) for one character
ReplaceAll(h, old, new) == [i \in DOMAIN h |-> IF h[i] = old THEN new ELSE h[i]]

normalizeHeader(header) ==
    ReplaceAll(ReplaceAll(TrimSpace(ToLower(header)), " ", "_"), "-", "_")

\* hm.headers: normalized -> original; a later header with the same
\* normalized form replaces an earlier one.
NewHeaderMapper(headers) ==
    [n \in {normalizeHeader(headers[i]) : i \in DOMAIN headers} |->
        headers[CHOOSE i \in DOMAIN headers :
                    /\ normalizeHeader(headers[i]) = n
                    /\ \A j \in DOMAIN headers :
                          normalizeHeader(headers[j]) = n => j <= i]]

\* strings.Contains
Contains(h, sub) ==
    \E i \in 0..(Len(h) - Len(sub)) : SubSeq(h, i + 1, i + Len(sub)) = sub

NotFound == [col |-> <<>>, found |-> FALSE]

\* An exact match of any pattern taken before a substring match of any.
FindHeader_ExactFirst(hm, patterns) ==
    LET exact == {k \in DOMAIN patterns : patterns[k] \in DOMAIN hm}
        part == {k \in DOMAIN patterns : \E n \in DOMAIN hm : Contains(n, patterns[k])}
    IN  IF exact # {}
        THEN {[col |-> hm[patterns[CHOOSE k \in exact : \A m \in exact : k <= m]],
               found |-> TRUE]}
        ELSE IF part = {} THEN {NotFound}
        ELSE {[col |-> hm[n], found |-> TRUE] :
                 n \in {x \in DOMAIN hm :
                           Contains(x, patterns[CHOOSE k \in part : \A m \in part : k <= m])}}

\* FindHeader: the results it can return (Go ranges over the map in any
\* order, so the substring match is any header that matches).
RECURSIVE FindHeader(_, _)
FindHeader(hm, patterns) ==
    IF patterns = <<>> THEN {NotFound}
    ELSE IF patterns[1] \in DOMAIN hm
    THEN {[col |-> hm[patterns[1]], found |-> TRUE]}
    ELSE LET hits == {n \in DOMAIN hm : Contains(n, patterns[1])}
         IN  IF hits # {}
             THEN {[col |-> hm[n], found |-> TRUE] : n \in hits}
             ELSE FindHeader(hm, Tail(patterns))

HeaderInit ==
    /\ NoIngest
    /\ scan = <<>>
    /\ calc \in [op : {"headers"}, headers : HeaderRows, patterns : PatternLists]

\* mapper := NewHeaderMapper(headers); col, found := mapper.FindHeader(patterns...)
Find ==
    /\ calc.op = "headers"
    /\ \E r \in FindHeader(NewHeaderMapper(calc.headers), calc.patterns) :
          calc' = [op |-> "found", headers |-> calc.headers,
                   patterns |-> calc.patterns, col |-> r.col, found |-> r.found]
    /\ UNCHANGED <<db, loc, log, calls, allowUnsafeDuplicateIngest, http, scan>>

HeaderNext == Find

Headers == HeaderInit /\ [][HeaderNext]_vars

(***************************************************************************)
(* One row of a fuel sheet on its own: every combination of a capacity     *)
(* and a current-level column, in litres or in cubic metres, and of their  *)
(* cells.                                                                  *)
(***************************************************************************)
\* The header FindHeader("capacity", ...) resolves, "" for none.
CapacityHeaders == {"", "Capacity", "Capacity(m3)"}

\* The header FindHeader("current", ...) resolves, "" for none.
CurrentHeaders == {"", "Current", "Current Level(m3)"}

\* isM3Header
M3Headers == {"Capacity(m3)", "Current Level(m3)"}

VolumeCells == {EmptyCell, BadCell, NumCell(0), NumCell(5), NumCell(10), NumCell(20)}

Resolved(role, header) == IF header = "" THEN <<>> ELSE (role :> header)

Filled(header, cell) == IF header = "" THEN <<>> ELSE (header :> cell)

FuelSheets ==
    {[name |-> {"fuel"}, readable |-> TRUE,
      find |-> [tank_no |-> "Tank"] @@ Resolved("capacity", capCol)
                                    @@ Resolved("current", curCol),
      m3 |-> {capCol, curCol} \cap M3Headers, locCols |-> {},
      rows |-> << ("Tank" :> NumCell(1)) @@ Filled(capCol, cap) @@ Filled(curCol, cur) >>] :
        capCol \in CapacityHeaders, curCol \in CurrentHeaders,
        cap \in VolumeCells, cur \in VolumeCells}

\* The sheets whose level, when there is one, is a whole number of percent.
WholeSheets ==
    {sh \in FuelSheets :
        LET capV == FloatAt(sh, sh.rows[1], "capacity")
        IN  \/ capV = Null
            \/ capV[1] = 0
            \/ FloatAt(sh, sh.rows[1], "current") = Null /\ Col(sh, "current") # ""
            \/ LET capLiters == Liters(sh, Col(sh, "capacity"), capV[1])
                   curV == IF Col(sh, "current") # ""
                           THEN Liters(sh, Col(sh, "current"),
                                       FloatAt(sh, sh.rows[1], "current")[1])
                           ELSE capLiters
               IN  (curV * 100) % capLiters = 0}

FuelInit ==
    /\ NoIngest
    /\ scan = <<>>
    /\ calc \in [op : {"fuel"}, sh : WholeSheets, ts : {40}]

\* One turn of the row loop of processFuelSheet, for vessel 1.
Fuel ==
    /\ calc.op = "fuel"
    /\ calc' = [op |-> "done", sh |-> calc.sh, ts |-> calc.ts,
                out |-> FuelRow(calc.sh, 1, calc.sh.rows[1], 1, calc.ts)]
    /\ UNCHANGED <<db, loc, log, calls, allowUnsafeDuplicateIngest, http, scan>>

FuelNext == Fuel

Fuels == FuelInit /\ [][FuelNext]_vars

(***************************************************************************)
(* Properties of ProcessFile.  They are stated over the calls that have    *)
(* ended (log), the calls in flight (loc) and the database.                *)
(***************************************************************************)
\* A call ends in this step; Ended is what it returned.
Ends == Len(log') = Len(log) + 1
Ended == log'[Len(log')]

\* Worker w takes this step, in the middle of its call.
StepsOn(w) == loc[w].pc # "idle" /\ loc'[w] # loc[w]

\* A call with the bytes of file begins in this step.
Begins(file) ==
    /\ calls' = calls + 1
    /\ \/ Ends /\ Ended.file = file
       \/ \E w \in Workers :
             loc[w].pc = "idle" /\ loc'[w].pc # "idle" /\ loc'[w].file = file

UploadsOf(d, file) == {u \in d.uploads : u.file_hash = SHA256Hex(file)}

\* What the first data row of the ship-info sheet of a file says ("" when
\* the file has no such sheet or the sheet has no data row).
UsableShipInfo(file) ==
    /\ ShipInfoSheet(Workbooks[file]) # 0
    /\ Len(Workbooks[file].sheets[ShipInfoSheet(Workbooks[file])].rows) > 0

SheetValue(file, role) ==
    IF UsableShipInfo(file)
    THEN LET sh == Workbooks[file].sheets[ShipInfoSheet(Workbooks[file])]
         IN  StrAt(sh, sh.rows[1], role)
    ELSE ""

\* The IMO a call is about: the parameter, else what the sheet says.
CallIMO(file, imoP) == IF imoP # "" THEN imoP ELSE SheetValue(file, "imo")

\* Two calls with the same bytes and the same parameters.
SameCall(a, b) == a.file = b.file /\ a.imoP = b.imoP /\ a.nameP = b.nameP

KeyedOn(d, id, imo) == \E v \in d.vessels : v.id = id /\ v.imo = imo

\* C1: once a call with bytes B has returned "ingested", the same call made
\* again later changes no reading row, returns "already_ingested" with the
\* upload id of the first call, and leaves exactly one upload row with the
\* hash of B.
C1_SecondCallAlreadyIngested ==
    [][\A i \in DOMAIN log :
          log[i].status = "ingested" =>
             /\ \A w \in Workers :
                   (StepsOn(w) /\ SameCall(loc[w], log[i]) /\ loc[w].seen >= i)
                      => db'.readings = db.readings
             /\ (Ends /\ SameCall(Ended, log[i]) /\ Ended.seen >= i) =>
                   /\ Ended.status = "already_ingested"
                   /\ Ended.uploadID = log[i].uploadID
                   /\ Cardinality(UploadsOf(db', log[i].file)) = 1]_vars

UniqueReadings(d) ==
    \A s \in Streams : \A a, b \in d.readings[s] : SameKey(a, b) => a = b

\* The INSERT OR IGNORE a call at l issues next: its table, its row, and the
\* row number its warnings would carry.
PendingStream(l) ==
    IF l.pc = "location" THEN "location"
    ELSE Classify(Workbooks[l.file].sheets[l.sheet])

PendingRow(l) ==
    IF l.pc = "location" THEN LocationOf(l).row
    ELSE LET sh == Workbooks[l.file].sheets[l.sheet]
         IN  ProcessRow(Classify(sh), sh, l.row, sh.rows[l.row],
                        l.vesselID, l.uploadedAt).row

PendingRowNo(l) == IF l.pc = "location" THEN 0 ELSE l.row + 1

\* Worker w issues an insert whose key is already in the table.
Conflict(w) ==
    /\ StepsOn(w)
    /\ loc[w].pc \in {"location", "sheets"}
    /\ \E x \in db.readings[PendingStream(loc[w])] : SameKey(x, PendingRow(loc[w]))

WarningsAfter(w) ==
    IF loc'[w].pc = "idle" THEN Ended.warnings ELSE loc'[w].warnings

\* C2: every reading table holds at most one row per (vessel_id, ts,
\* row_hash); no step removes or changes a row that is there; an insert
\* whose key is there changes no reading, does not fail the call and adds
\* no warning for its row.
C2_FirstWriteWins ==
    /\ UniqueReadings(db)
    /\ [][/\ UniqueReadings(db')
          /\ \A s \in Streams : db.readings[s] \subseteq db'.readings[s]
          /\ \A w \in Workers :
                Conflict(w) =>
                   /\ db'.readings = db.readings
                   /\ loc'[w].pc = "idle" => Ended.status = "ingested"
                   /\ \A k \in (Len(loc[w].warnings) + 1)..Len(WarningsAfter(w)) :
                         ~(/\ WarningsAfter(w)[k].stream = PendingStream(loc[w])
                           /\ WarningsAfter(w)[k].row = PendingRowNo(loc[w]))]_vars

\* Workbooks A and B were both ingested for one vessel; both have an engine
\* row for engine 1 at time 40, and the table holds one.
C2_Witness ==
    \E i, j \in DOMAIN log :
        /\ log[i].file = "A" /\ log[j].file = "B"
        /\ log[i].status = "ingested" /\ log[j].status = "ingested"
        /\ log[i].vesselID = log[j].vesselID
        /\ Cardinality({x \in db.readings["engines"] :
                           x.vessel_id = log[i].vesselID[1] /\ x.ts = 40}) = 1

EngineKeys(d) == {<<x.vessel_id, x.ts, x.row_hash>> : x \in d.readings["engines"]}

\* The calls whose period_start is given (their rows do not depend on the
\* clock), and one of them run alone on database d.
Requests ==
    {[file |-> f, q |-> q] : f \in Files, q \in {p \in Params : p.periodStart # Null}}

Run(d, r) == ProcessFile(d, r.file, r.q.imo, r.q.name, r.q.periodStart[1])

\* C3: on the database the server starts with, for two workbooks of one
\* vessel (the same IMO) that each, ingested alone, store an engine row
\* with the same (vessel_id, ts, row_hash): ingesting them one after the
\* other leaves, in both orders, one engine row with that key and the same
\* set of engine keys.
C3_OrderIndependent ==
    calls = 0 =>
        \A r1, r2 \in Requests :
            LET a == Run(db, r1)
                b == Run(db, r2)
                ab == Run(a.db, r2)
                ba == Run(b.db, r1)
                shared == (EngineKeys(a.db) \cap EngineKeys(b.db)) \ EngineKeys(db)
            IN  (/\ r1.file # r2.file
                 /\ CallIMO(r1.file, r1.q.imo) # ""
                 /\ CallIMO(r1.file, r1.q.imo) = CallIMO(r2.file, r2.q.imo)
                 /\ a.out.status = "ingested" /\ b.out.status = "ingested"
                 /\ shared # {}) =>
                    /\ \A k \in shared : \A d \in {ab.db, ba.db} :
                          Cardinality({x \in d.readings["engines"] :
                                         <<x.vessel_id, x.ts, x.row_hash>> = k}) = 1
                    /\ EngineKeys(ab.db) = EngineKeys(ba.db)

UniqueIMO(d) ==
    \A a, b \in d.vessels : (a.imo # "" /\ a.imo = b.imo) => a = b

\* C4: there is at most one vessel row per non-null IMO, and no step
\* removes a vessel row or changes its IMO.
C4_VesselIdentity ==
    /\ UniqueIMO(db)
    /\ [][/\ UniqueIMO(db')
          /\ \A v \in db.vessels :
                \E x \in db'.vessels : x.id = v.id /\ x.imo = v.imo]_vars

\* Two calls about the same IMO have been served and one vessel row has it.
C4_Witness ==
    \E i, j \in DOMAIN log :
        /\ i # j
        /\ log[i].status = "ingested" /\ log[j].status = "ingested"
        /\ CallIMO(log[i].file, log[i].imoP) # ""
        /\ CallIMO(log[i].file, log[i].imoP) = CallIMO(log[j].file, log[j].imoP)
        /\ Cardinality({v \in db.vessels :
                           v.imo = CallIMO(log[i].file, log[i].imoP)}) = 1

\* C5: a call on a readable workbook, about the IMO of a vessel that a call
\* ended before it began had ingested for, succeeds with that vessel's id,
\* leaves one vessel row with that IMO, and the row carries the flag, type
\* and name of the call's ship-info sheet.
C5_KnownIMOUpdatesVessel ==
    [][Ends =>
         \A i \in DOMAIN log :
            (/\ i <= Ended.seen
             /\ log[i].status = "ingested"
             /\ Workbooks[Ended.file].valid
             /\ Ended.status # "already_ingested"
             /\ CallIMO(Ended.file, Ended.imoP) # ""
             /\ CallIMO(Ended.file, Ended.imoP) = CallIMO(log[i].file, log[i].imoP)) =>
                /\ Ended.status = "ingested"
                /\ Ended.vesselID = log[i].vesselID
                /\ \A v \in db'.vessels :
                      v.imo = CallIMO(Ended.file, Ended.imoP) =>
                         /\ v.id = log[i].vesselID[1]
                         /\ UsableShipInfo(Ended.file) =>
                               /\ v.flag = SheetValue(Ended.file, "flag")
                               /\ v.type = SheetValue(Ended.file, "type")
                               /\ SheetValue(Ended.file, "name") # "" =>
                                     v.name = SheetValue(Ended.file, "name")]_vars

\* C6: in a call with an IMO parameter on a workbook whose ship-info sheet
\* carries another IMO, no step creates or changes a vessel row with the
\* sheet's IMO, and the vessel the call selects, creates, updates and
\* returns is the one with the parameter's IMO.
C6_ParameterIMOWins ==
    [][\A w \in Workers :
          (/\ StepsOn(w)
           /\ loc[w].imoP # ""
           /\ SheetValue(loc[w].file, "imo") \notin {"", loc[w].imoP}) =>
              /\ {v \in db'.vessels : v.imo = SheetValue(loc[w].file, "imo")}
                    = {v \in db.vessels : v.imo = SheetValue(loc[w].file, "imo")}
              /\ loc'[w].existingID # 0 =>
                    KeyedOn(db', loc'[w].existingID, loc[w].imoP)
              /\ loc'[w].vesselID # 0 =>
                    KeyedOn(db', loc'[w].vesselID, loc[w].imoP)
              /\ (loc'[w].pc = "idle" /\ Ended.status = "ingested") =>
                    KeyedOn(db', Ended.vesselID[1], loc[w].imoP)]_vars

\* A call with IMO parameter 2222222 on a workbook whose sheet says 1111111
\* has returned a vessel with IMO 2222222.
C6_Witness ==
    \E i \in DOMAIN log :
        /\ log[i].imoP # ""
        /\ SheetValue(log[i].file, "imo") \notin {"", log[i].imoP}
        /\ log[i].status = "ingested"
        /\ KeyedOn(db, log[i].vesselID[1], log[i].imoP)

\* Neither parameter is given and the ship-info sheet gives neither an IMO
\* nor a name.
Unresolvable(file, imoP, nameP) ==
    /\ imoP = "" /\ nameP = ""
    /\ SheetValue(file, "imo") = "" /\ SheetValue(file, "name") = ""

\* C7: a call for which neither an IMO nor a name can be resolved writes
\* nothing and ends by returning an error value.
C7_UnresolvableReturnsError ==
    [][/\ \A w \in Workers :
            (StepsOn(w) /\ Unresolvable(loc[w].file, loc[w].imoP, loc[w].nameP))
               => db' = db
       /\ (Ends /\ Unresolvable(Ended.file, Ended.imoP, Ended.nameP))
            => Ended.status = "error"]_vars

C9_IngestedHasUpload ==
    /\ \A i \in DOMAIN log :
          log[i].status = "ingested" =>
             /\ Cardinality(UploadsOf(db, log[i].file)) = 1
             /\ \A u \in UploadsOf(db, log[i].file) :
                   u.vessel_id = log[i].vesselID[1] /\ log[i].uploadID = Some(u.id)
    /\ \A i, j \in DOMAIN log :
          (/\ log[i].status = "ingested" /\ log[j].status = "ingested"
           /\ log[i].file # log[j].file) => log[i].uploadID # log[j].uploadID

\* C10: when the same call was made twice at the same time and one of
\* them returned "ingested", there is exactly one upload row with the hash
\* of the bytes and the other call returned "already_ingested".
C10_ConcurrentSameBytes ==
    \A i, j \in DOMAIN log :
        (/\ i < j /\ log[j].seen < i
         /\ SameCall(log[i], log[j])
         /\ "ingested" \in {log[i].status, log[j].status}) =>
            /\ Cardinality(UploadsOf(db, log[i].file)) = 1
            /\ {log[i].status, log[j].status} = {"ingested", "already_ingested"}

\* No step writes an upload row, so the uploads table tells which database
\* the server started on.
StartDB == IF db.uploads = {} THEN EmptyDB ELSE PriorDB

\* C11: when the first call was killed after some of its writes and the
\* same call (same bytes, parameters and reference time) was then made
\* again and not killed, and that call run once without interruption
\* succeeds, then the
\* second call returns "ingested" and the vessel rows and reading rows are
\* those the one uninterrupted run leaves.
C11_RetryAfterInterrupt ==
    (/\ Len(log) = 2
     /\ log[1].status = "killed" /\ log[2].status # "killed"
     /\ SameCall(log[1], log[2])
     /\ log[1].uploadedAt = log[2].uploadedAt) =>
        LET one == ProcessFile(StartDB, log[1].file, log[1].imoP, log[1].nameP,
                               log[1].uploadedAt)
        IN  one.out.status = "ingested" =>
               /\ log[2].status = "ingested"
               /\ db.vessels = one.db.vessels
               /\ db.readings = one.db.readings

(***************************************************************************)
(* Properties of the sheet processors and of the ingest endpoint.          *)
(***************************************************************************)
NotNegative(v) == v = Null \/ v[1] >= 0
Within(v, lo, hi) == v = Null \/ (v[1] >= lo /\ v[1] <= hi)

\* Every stored engine, fuel and generator reading has its validated
\* fields unset or in range.
ValidReadings(d) ==
    /\ \A x \in d.readings["engines"] :
          NotNegative(x.f.rpm) /\ NotNegative(x.f.oil_pressure_bar)
    /\ \A x \in d.readings["fuel"] :
          Within(x.f.level_percent, 0, 100) /\ NotNegative(x.f.volume_liters)
    /\ \A x \in d.readings["generators"] :
          /\ NotNegative(x.f.load_kw) /\ NotNegative(x.f.voltage_v)
          /\ Within(x.f.frequency_hz, 45, 70) /\ NotNegative(x.f.fuel_rate_lph)

\* The row of a sheet has a value out of range (the cells as parsed).
OutOfRange(stream, sh, row) ==
    CASE stream = "engines" ->
            ~(/\ NotNegative(FloatAt(sh, row, "rpm"))
              /\ NotNegative(FloatAt(sh, row, "oil_pressure")))
      [] stream = "fuel" ->
            LET cap == FloatAt(sh, row, "capacity")
                cur == FloatAt(sh, row, "current")
            IN  ~(NotNegative(cur) /\ Within(LevelPercent(cur, cap), 0, 100))
      [] OTHER ->
            ~(/\ NotNegative(FloatAt(sh, row, "load"))
              /\ NotNegative(FloatAt(sh, row, "voltage"))
              /\ Within(FloatAt(sh, row, "frequency"), 45, 70)
              /\ NotNegative(FloatAt(sh, row, "fuel_rate")))

\* The number of the engine, tank or generator: of a row, of a reading.
NumberRole(stream) ==
    IF stream = "engines" THEN "engine_no"
    ELSE IF stream = "fuel" THEN "tank_no" ELSE "gen_no"

StoredNumber(stream, x) ==
    IF stream = "engines" THEN x.f.engine_no
    ELSE IF stream = "fuel" THEN x.f.tank_no ELSE x.f.gen_no

\* The validated values of a reading are those of the row.
SameValues(stream, x, sh, row) ==
    CASE stream = "engines" ->
            /\ x.f.rpm = FloatAt(sh, row, "rpm")
            /\ x.f.oil_pressure_bar = FloatAt(sh, row, "oil_pressure")
      [] stream = "fuel" ->
            x.f.volume_liters = FloatAt(sh, row, "current")
      [] OTHER ->
            /\ x.f.load_kw = FloatAt(sh, row, "load")
            /\ x.f.voltage_v = FloatAt(sh, row, "voltage")
            /\ x.f.frequency_hz = FloatAt(sh, row, "frequency")
            /\ x.f.fuel_rate_lph = FloatAt(sh, row, "fuel_rate")

\* The readings of a vessel with the time and number of a row of a sheet,
\* read with reference time defaultTS (the row, or an earlier one that has
\* its key); and those of them that carry the values of the row.
KeyedFor(d, stream, vesselID, sh, row, defaultTS) ==
    {x \in d.readings[stream] :
        /\ x.vessel_id = vesselID
        /\ x.ts = ResolveTS(sh, row, defaultTS)
        /\ StoredNumber(stream, x) = IntAt(sh, row, NumberRole(stream))}

StoredFor(d, stream, vesselID, sh, row, defaultTS) ==
    {x \in KeyedFor(d, stream, vesselID, sh, row, defaultTS) :
        SameValues(stream, x, sh, row)}

WarningsFor(warnings, stream, rowNo) ==
    {k \in DOMAIN warnings :
        warnings[k].stream = stream /\ warnings[k].row = rowNo}

\* The sheets of a file that a validating processor reads row by row.
ValidatedSheets(file) ==
    {k \in DOMAIN Workbooks[file].sheets :
        /\ Classify(Workbooks[file].sheets[k]) \in {"engines", "fuel", "generators"}
        /\ Workbooks[file].sheets[k].readable
        /\ Len(Workbooks[file].sheets[k].rows) > 0}

\* C12: every stored engine, fuel and generator reading has its validated
\* fields unset or in range; and when a call returns "ingested", then for
\* each row of an engine, fuel or generator sheet: a row with a value out
\* of range is not stored and has exactly one warning naming it, a row at
\* or inside the limits has no warning and a reading with its key is
\* stored, wherever it stands in the sheet, and the count of the stream is
\* the number of such rows.
C12_InvalidRowsSkipped ==
    /\ ValidReadings(db)
    /\ [][/\ ValidReadings(db')
          /\ (Ends /\ Ended.status = "ingested") =>
                \A k \in ValidatedSheets(Ended.file) :
                    LET sh == Workbooks[Ended.file].sheets[k]
                        stream == Classify(sh)
                        v == Ended.vesselID[1]
                        good == {i \in DOMAIN sh.rows :
                                    ~OutOfRange(stream, sh, sh.rows[i])}
                    IN  /\ \A i \in DOMAIN sh.rows :
                              IF i \in good
                              THEN /\ KeyedFor(db', stream, v, sh, sh.rows[i],
                                            Ended.uploadedAt) # {}
                                   /\ WarningsFor(Ended.warnings, stream, i + 1) = {}
                              ELSE /\ StoredFor(db', stream, v, sh, sh.rows[i],
                                             Ended.uploadedAt) = {}
                                   /\ Cardinality(WarningsFor(Ended.warnings,
                                                              stream, i + 1)) = 1
                        /\ Ended.rowsInserted[stream] = Cardinality(good)]_vars

\* Workbook V has been ingested: three generator rows stored, ten rows
\* skipped with a warning each.
C12_Witness ==
    \E i \in DOMAIN log :
        /\ log[i].file = "V" /\ log[i].status = "ingested"
        /\ log[i].rowsInserted["engines"] = 2
        /\ log[i].rowsInserted["fuel"] = 2
        /\ log[i].rowsInserted["generators"] = 3
        /\ Len(log[i].warnings) = 10
        /\ Cardinality(db.readings["generators"]) >= 3

\* The first data row of the ship-info sheet of a file has a position value
\* out of range.
PositionOutOfRange(file) ==
    /\ UsableShipInfo(file)
    /\ LET sh == Workbooks[file].sheets[ShipInfoSheet(Workbooks[file])]
           row == sh.rows[1]
       IN  ~(/\ Within(FloatAt(sh, row, "latitude"), -90, 90)
             /\ Within(FloatAt(sh, row, "longitude"), -180, 180)
             /\ Within(FloatAt(sh, row, "course"), 0, 360)
             /\ NotNegative(FloatAt(sh, row, "speed")))

\* C13: for every call that returned "ingested" on a workbook whose
\* ship-info row has a position value out of range, a location reading of
\* the call's vessel with that row's latitude is stored, the response
\* counts it, and the response carries a location warning.
C13_InvalidLocationStored ==
    \A i \in DOMAIN log :
        (log[i].status = "ingested" /\ PositionOutOfRange(log[i].file)) =>
            LET sh == Workbooks[log[i].file].sheets[ShipInfoSheet(Workbooks[log[i].file])]
            IN  /\ \E x \in db.readings["location"] :
                      /\ x.vessel_id = log[i].vesselID[1]
                      /\ x.f.latitude = FloatAt(sh, sh.rows[1], "latitude")
                /\ "location" \in DOMAIN log[i].rowsInserted
                /\ \E k \in DOMAIN log[i].warnings :
                      log[i].warnings[k].stream = "location"

\* A telemetry sheet that cannot be read or has fewer than two rows.
Failing(sh) == Classify(sh) # "" /\ (~sh.readable \/ Len(sh.rows) = 0)

FailingSheets(file, stream) ==
    {k \in DOMAIN Workbooks[file].sheets :
        Failing(Workbooks[file].sheets[k]) /\ Classify(Workbooks[file].sheets[k]) = stream}

\* Workbook g is workbook f without its failing sheets, and f has some.
Stripped(f, g) ==
    /\ \E k \in DOMAIN Workbooks[f].sheets : Failing(Workbooks[f].sheets[k])
    /\ Workbooks[g].sheets = SelectSeq(Workbooks[f].sheets, LAMBDA sh : ~Failing(sh))

SheetErrors(warnings, stream) ==
    {k \in DOMAIN warnings :
        warnings[k].stream = stream /\ warnings[k].msgs = <<"error reading sheet">>}

NoSheetErrors(warnings) ==
    SelectSeq(warnings, LAMBDA x : x.msgs # <<"error reading sheet">>)

\* On database d a request for a workbook with failing sheets ends as the
\* same request for the workbook without them: "ingested" when that is,
\* the same database after it, the same counts for the streams of the
\* other sheets, the same warnings but for those of the failing sheets.
AsIfAbsent(d) ==
    \A f, g \in ApiFiles : \A q \in {p \in Params : p.periodStart # Null} :
        Stripped(f, g) =>
            LET u == ProcessFile(d, f, q.imo, q.name, q.periodStart[1])
                t == ProcessFile(d, g, q.imo, q.name, q.periodStart[1])
            IN  t.out.status = "ingested" =>
                   /\ u.out.status = "ingested"
                   /\ u.db = t.db
                   /\ u.out.vesselID = t.out.vesselID
                   /\ \A s \in DOMAIN t.out.rowsInserted :
                         /\ s \in DOMAIN u.out.rowsInserted
                         /\ u.out.rowsInserted[s] = t.out.rowsInserted[s]
                   /\ \A s \in DOMAIN u.out.rowsInserted \ DOMAIN t.out.rowsInserted :
                         FailingSheets(f, s) # {} /\ u.out.rowsInserted[s] = 0
                   /\ NoSheetErrors(u.out.warnings) = t.out.warnings

\* C14: a request for a workbook with telemetry sheets that cannot be read
\* or have fewer than two rows ends as the request for the workbook without
\* those sheets does (so no row of them is stored), on every database the
\* server reaches; and when a call returns "ingested", each such sheet of
\* its workbook has left exactly one warning, and a stream that has only
\* such sheets is counted 0.
C14_FailingSheetIsolated ==
    /\ AsIfAbsent(db)
    /\ [][/\ AsIfAbsent(db')
          /\ (Ends /\ Ended.status = "ingested") =>
                \A s \in Streams :
                    LET bad == FailingSheets(Ended.file, s)
                        all == {k \in DOMAIN Workbooks[Ended.file].sheets :
                                   Classify(Workbooks[Ended.file].sheets[k]) = s}
                    IN  /\ Cardinality(SheetErrors(Ended.warnings, s)) = Cardinality(bad)
                        /\ (bad # {} /\ bad = all) => Ended.rowsInserted[s] = 0]_vars

\* Workbook U (an unreadable engine sheet, a fuel sheet with a header only,
\* a generator sheet and a CCTV sheet) has been ingested: two sheet
\* warnings, one generator row and one CCTV row counted.
C14_Witness ==
    \E i \in DOMAIN log :
        /\ log[i].file = "U" /\ log[i].status = "ingested"
        /\ Len(log[i].warnings) = 2
        /\ log[i].rowsInserted["engines"] = 0 /\ log[i].rowsInserted["fuel"] = 0
        /\ log[i].rowsInserted["generators"] = 1 /\ log[i].rowsInserted["cctv"] = 1
        /\ db.readings["generators"] # {} /\ db.readings["cctv"] # {}

UniqueLatest(d) ==
    \A a, b \in d.latest :
        (a.vessel_id = b.vessel_id /\ a.stream = b.stream) => a = b

\* The streams a call counted at least one row for.
Counted(rowsInserted) == {s \in DOMAIN rowsInserted : rowsInserted[s] > 0}

\* C15: there is at most one StreamLatest row per (vessel, stream); a step
\* changes only StreamLatest rows of the vessel of the call that takes it,
\* and of that vessel only those of streams the call counted at least one
\* row for; and when a call returns "ingested", the StreamLatest row of its
\* vessel for each such stream holds the reference time of the call.
C15_StreamLatest ==
    /\ UniqueLatest(db)
    /\ [][/\ UniqueLatest(db')
          /\ \A x \in db.latest \cup db'.latest :
                \/ x \in db.latest /\ x \in db'.latest
                \/ \E w \in Workers :
                      /\ StepsOn(w)
                      /\ x.vessel_id = loc[w].vesselID
                      /\ x.stream \in Counted(loc[w].rowsInserted)
          /\ (Ends /\ Ended.status = "ingested") =>
                \A s \in Counted(Ended.rowsInserted) :
                    [vessel_id |-> Ended.vesselID[1], stream |-> s,
                     latest_ts |-> Ended.uploadedAt] \in db'.latest]_vars

\* A call has moved the pointers of its vessel to its reference time, one
\* of them from an earlier time, next to the pointers of another vessel.
C15_Witness ==
    \E i \in DOMAIN log :
        /\ log[i].status = "ingested"
        /\ Cardinality(Counted(log[i].rowsInserted)) >= 2
        /\ \A s \in Counted(log[i].rowsInserted) :
              [vessel_id |-> log[i].vesselID[1], stream |-> s,
               latest_ts |-> log[i].uploadedAt] \in db.latest
        /\ \E x \in PriorDB.latest :
              /\ x.vessel_id = log[i].vesselID[1]
              /\ x.stream \in Counted(log[i].rowsInserted)
              /\ x.latest_ts < log[i].uploadedAt
        /\ \E x \in db.latest : x.vessel_id # log[i].vesselID[1]

\* The handler answers a request in this step.
Answers == Len(http') = Len(http) + 1
Answered == http'[Len(http')]

C17_CursorRoundTrip ==
    (calc.op = "decoded" /\ "ts" \in DOMAIN calc) =>
        /\ calc.out.err = ""
        /\ calc.out.ts = calc.ts
        /\ calc.out.id = calc.id

RECURSIVE Concat(_)
Concat(ss) == IF ss = <<>> THEN <<>> ELSE ss[1] \o Concat(Tail(ss))

\* The rows of the first i pages.
Shown(i) == Concat([k \in 1..i |-> scan.pages[k].items])

\* The rows the query of the traversal matches, in order.
Matching == OrderBy(Where(scan.table, scan.q, ZeroTime, 0))

\* C16: in a traversal that starts from the empty cursor, each page has at
\* most limit rows, the pages so far are the first matching rows in
\* ascending (ts, id) order, each once, and a page carries a cursor exactly
\* when matching rows remain after it.
C16_Traversal ==
    (scan # <<>> /\ scan.first = <<>>) =>
        \A i \in DOMAIN scan.pages :
            /\ Len(scan.pages[i].items) <= Limit(scan.q)
            /\ Len(Shown(i)) <= Len(Matching)
            /\ Shown(i) = SubSeq(Matching, 1, Len(Shown(i)))
            /\ scan.pages[i].next # Null <=> Len(Shown(i)) < Len(Matching)

\* The two key lists hold the same keys, each as often.
Permuted(k1, k2) ==
    /\ Len(k1) = Len(k2)
    /\ \A x \in KeyTexts :
          Cardinality({i \in DOMAIN k1 : k1[i] = x})
              = Cardinality({i \in DOMAIN k2 : k2[i] = x})

\* C19: HashRow called again with the same arguments gives the same hash,
\* and so does HashRow called with the keys in another order.
C19_HashOrderIndependent ==
    calc # <<>> /\ calc.op = "hashed" =>
        /\ calc.hash2 = calc.hash1
        /\ (/\ calc.b = [calc.a EXCEPT !.keys = calc.b.keys]
            /\ Permuted(calc.a.keys, calc.b.keys)) => calc.hash3 = calc.hash1

\* Two different keys were passed in both orders.
C19_Witness ==
    /\ calc # <<>>
    /\ calc.op = "hashed"
    /\ Len(calc.a.keys) = 2
    /\ calc.a.keys[1] # calc.a.keys[2]
    /\ calc.b.keys = <<calc.a.keys[2], calc.a.keys[1]>>
    /\ calc.a.keys # SortStrings(calc.a.keys)
    /\ calc.hash3 = calc.hash1

\* C20: arguments that differ only in the vessel id, only in the timestamp
\* or only in the keys (other than by their order) give different digest
\* inputs, hence different hashes.
C20_HashInjective ==
    (/\ calc # <<>>
     /\ calc.op = "hashed"
     /\ calc.a # calc.b
     /\ ~Permuted(calc.a.keys, calc.b.keys) \/ calc.a.keys = calc.b.keys) =>
        calc.hash3 # calc.hash1

\* The rows of a stream that database e holds and database d does not.
NewRows(d, e, stream) == e.readings[stream] \ d.readings[stream]

\* The count a call reports for a stream (no entry reads as 0).
CountOf(out, stream) ==
    IF stream \in DOMAIN out.rowsInserted THEN out.rowsInserted[stream] ELSE 0

\* The sheets of a file that go to the processor of a stream.
SheetsOf(file, stream) ==
    {k \in DOMAIN Workbooks[file].sheets : Classify(Workbooks[file].sheets[k]) = stream}

SheetStreams == Streams \ {"location"}

NoCallInFlight == \A w \in Workers : loc[w].pc = "idle"

\* C21: for a call that runs between the other calls and returns "ingested",
\* the count reported for a stream with one sheet is the number of reading
\* rows of that stream that the call added to the table.
C21_CountIsNewRows ==
    NoCallInFlight =>
        \A r \in Requests :
            LET a == Run(db, r)
            IN  a.out.status = "ingested" =>
                   \A s \in SheetStreams :
                       Cardinality(SheetsOf(r.file, s)) <= 1 =>
                           CountOf(a.out, s) = Cardinality(NewRows(db, a.db, s))

RECURSIVE Sum(_)
Sum(q) == IF q = <<>> THEN 0 ELSE q[1] + Sum(Tail(q))

\* What the processor of sheet k of a file returns as its count when the
\* file is ingested alone for vessel vesselID: the rows it issues an insert
\* for (0 for a sheet that cannot be read or has no data row).
SheetCount(file, k, vesselID, defaultTS) ==
    LET sh == Workbooks[file].sheets[k]
    IN  IF ~sh.readable THEN 0
        ELSE Cardinality({i \in DOMAIN sh.rows :
                             ProcessRow(Classify(sh), sh, i, sh.rows[i],
                                        vesselID, defaultTS).insert})

\* The counts of the sheets of a stream, in sheet order.
SheetCounts(file, stream, vesselID, defaultTS) ==
    LET ks == SheetsOf(file, stream)
        wb == Workbooks[file]
    IN  [n \in 1..Cardinality(ks) |->
            SheetCount(file,
                       CHOOSE k \in ks : Cardinality({m \in ks : m <= k}) = n,
                       vesselID, defaultTS)]

\* C22: when a call returns "ingested", the count it reports for a stream
\* is the sum of the counts of the sheets of that stream, and the
\* StreamLatest row of the stream points at the reference time of the call
\* if one of those sheets counted a row.
C22_CountsAreSummed ==
    [][(Ends /\ Ended.status = "ingested") =>
          \A s \in SheetStreams :
              LET counts == SheetCounts(Ended.file, s, Ended.vesselID[1],
                                        Ended.uploadedAt)
              IN  /\ CountOf(Ended, s) = Sum(counts)
                  /\ Sum(counts) > 0 =>
                        [vessel_id |-> Ended.vesselID[1], stream |-> s,
                         latest_ts |-> Ended.uploadedAt] \in db'.latest]_vars

\* The patterns of the reading processors, in the order of their
\* precedence, and the stream each stands for.
Precedence ==
    << <<"engine", "engines">>, <<"fuel", "fuel">>, <<"generator", "generators">>,
       <<"cctv", "cctv">>, <<"impact", "impact">>, <<"vibration", "impact">> >>

\* The streams of the reading processors that handle sheet k of a file: the
\* stream of the first pattern its name contains, none for the ship-info
\* sheet and for a name that contains no pattern.
Readers(file, k) ==
    LET sh == Workbooks[file].sheets[k]
        hits == {n \in DOMAIN Precedence : Precedence[n][1] \in sh.name}
    IN  IF k = ShipInfoSheet(Workbooks[file]) \/ hits = {} THEN {}
        ELSE {Precedence[CHOOSE n \in hits : \A m \in hits : n <= m][2]}

ReadStreams(file) == UNION {Readers(file, k) : k \in DOMAIN Workbooks[file].sheets}

\* C23: when a call returns "ingested", the streams it reports a count for,
\* the streams its warnings name and the streams it has stored readings of
\* in this call are streams of a reading processor that handles one of the
\* sheets (or "location"), and every such stream has a count entry.
C23_OneProcessorPerSheet ==
    [][/\ (Ends /\ Ended.status = "ingested") =>
             /\ DOMAIN Ended.rowsInserted \ {"location"} = ReadStreams(Ended.file)
             /\ \A k \in DOMAIN Ended.warnings :
                   Ended.warnings[k].stream \in ReadStreams(Ended.file) \cup {"location"}
       /\ \A w \in Workers :
             StepsOn(w) =>
                \A s \in SheetStreams :
                    db'.readings[s] # db.readings[s] => s \in ReadStreams(loc[w].file)]_vars

\* The sheet and the row of the INSERT OR IGNORE a call at l issues next.
PendingSheet(l) ==
    IF l.pc = "location"
    THEN Workbooks[l.file].sheets[ShipInfoSheet(Workbooks[l.file])]
    ELSE Workbooks[l.file].sheets[l.sheet]

PendingCells(l) ==
    IF l.pc = "location" THEN PendingSheet(l).rows[1] ELSE PendingSheet(l).rows[l.row]

\* The timestamp cell of a row parses: the sheet has a timestamp column and
\* the cell of the row holds a time.
HasTime(sh, row) ==
    /\ "timestamp" \in DOMAIN sh.find
    /\ sh.find["timestamp"] \in DOMAIN row
    /\ row[sh.find["timestamp"]].k = "num"

\* The time a reading of the row is expected to carry.
ExpectedTS(sh, row, reference) ==
    IF HasTime(sh, row) THEN row[sh.find["timestamp"]].n ELSE reference

\* C24: a reading a step stores carries the time of its row's timestamp
\* cell when that cell parses and the reference time of the call otherwise;
\* and when a call returns "ingested", a row of a sheet without a time and
\* with no value out of range has no warning and a reading of the vessel at
\* the reference time is stored for its stream.
C24_TimestampFallback ==
    [][/\ \A w \in Workers :
             (StepsOn(w) /\ loc[w].pc \in {"location", "sheets"}) =>
                LET s == PendingStream(loc[w])
                    ts == ExpectedTS(PendingSheet(loc[w]), PendingCells(loc[w]),
                                     loc[w].uploadedAt)
                IN  /\ \A x \in db'.readings[s] \ db.readings[s] :
                          x.vessel_id = loc[w].vesselID /\ x.ts = ts
                    /\ \E x \in db'.readings[s] :
                          x.vessel_id = loc[w].vesselID /\ x.ts = ts
       /\ (Ends /\ Ended.status = "ingested") =>
             \A s \in SheetStreams : \A k \in SheetsOf(Ended.file, s) :
                 LET sh == Workbooks[Ended.file].sheets[k]
                 IN  sh.readable =>
                        \A i \in DOMAIN sh.rows :
                            (~HasTime(sh, sh.rows[i]) /\ ~OutOfRange(s, sh, sh.rows[i])) =>
                                /\ WarningsFor(Ended.warnings, s, i + 1) = {}
                                /\ \E x \in db'.readings[s] :
                                      /\ x.vessel_id = Ended.vesselID[1]
                                      /\ x.ts = Ended.uploadedAt]_vars

\* Workbook S has been ingested: its engine rows with a time are stored at
\* 40 and 42, its rows with text, with an empty cell and with no cell in the
\* timestamp column at the reference time, and nothing is warned of.
C24_Witness ==
    \E i \in DOMAIN log :
        /\ log[i].file = "S" /\ log[i].status = "ingested"
        /\ log[i].warnings = <<>>
        /\ log[i].uploadedAt \notin {40, 42}
        /\ \A n \in 1..5 :
              \E x \in db.readings["engines"] :
                  /\ x.vessel_id = log[i].vesselID[1]
                  /\ x.f.engine_no = Some(n)
                  /\ x.ts = (IF n = 1 THEN 40 ELSE IF n = 5 THEN 42
                             ELSE log[i].uploadedAt)

\* The normalized form of a header as the mapper is described: what lies
\* between its first and its last character that is no space, in lower
\* case, with "_" for each space and hyphen.
Normalized(h) ==
    LET solid == {i \in DOMAIN h : h[i] # " "}
        lo == CHOOSE i \in solid : \A j \in solid : i <= j
        hi == CHOOSE i \in solid : \A j \in solid : j <= i
    IN  IF solid = {} THEN <<>>
        ELSE [i \in 1..(hi - lo + 1) |->
                 LET c == h[lo + i - 1]
                 IN  IF c = "A" THEN "a" ELSE IF c \in {" ", "-"} THEN "_" ELSE c]

\* The headers of a row whose normalized form contains a pattern.
Candidates(headers, p) == {i \in DOMAIN headers : Contains(Normalized(headers[i]), p)}

\* C25: FindHeader returns not-found exactly when no normalized header
\* contains any of the patterns; otherwise it returns an original header
\* whose normalized form contains the first pattern that some header
\* contains, and one whose normalized form equals that pattern when there
\* is such a header.
C25_FindHeader ==
    (calc # <<>> /\ calc.op = "found") =>
        LET first == {k \in DOMAIN calc.patterns :
                         /\ Candidates(calc.headers, calc.patterns[k]) # {}
                         /\ \A m \in 1..(k - 1) :
                               Candidates(calc.headers, calc.patterns[m]) = {}}
        IN  IF first = {} THEN ~calc.found /\ calc.col = <<>>
            ELSE /\ calc.found
                 /\ \A k \in first :
                       \E i \in Candidates(calc.headers, calc.patterns[k]) :
                           /\ calc.col = calc.headers[i]
                           /\ (\E j \in DOMAIN calc.headers :
                                  Normalized(calc.headers[j]) = calc.patterns[k])
                                 => Normalized(calc.headers[i]) = calc.patterns[k]

\* A header that only contains the first pattern was returned although
\* another header equals the second pattern.
C25_Witness ==
    /\ calc # <<>>
    /\ calc.op = "found"
    /\ calc.found
    /\ Len(calc.patterns) = 2
    /\ Normalized(calc.col) # calc.patterns[1]
    /\ Contains(Normalized(calc.col), calc.patterns[1])
    /\ \E j \in DOMAIN calc.headers :
          /\ Normalized(calc.headers[j]) = calc.patterns[2]
          /\ calc.headers[j] # calc.col

\* The litres of a cell under a header: a number under a header with "m3"
\* in it counts a thousandfold; no header or no number, no value.
LitersUnder(header, row) ==
    IF header = "" \/ CellOf(row, header).k # "num" THEN Null
    ELSE IF header \in M3Headers THEN Some(CellOf(row, header).n * 1000)
    ELSE Some(CellOf(row, header).n)

Overlap(i, j) == i < j /\ log[j].seen < i

\* C27: two calls that ran at the same time on different workbooks with a
\* usable ship-info sheet, neither stopped as a duplicate, for one IMO that no vessel of the starting
\* database has, both returned "ingested" with the id of the one vessel
\* row of that IMO.
C27_ConcurrentSameIMO ==
    \A i, j \in DOMAIN log :
        (/\ Overlap(i, j)
         /\ log[i].file # log[j].file
         /\ log[i].status # "already_ingested"
         /\ log[j].status # "already_ingested"
         /\ UsableShipInfo(log[i].file)
         /\ UsableShipInfo(log[j].file)
         /\ CallIMO(log[i].file, log[i].imoP) # ""
         /\ CallIMO(log[i].file, log[i].imoP) = CallIMO(log[j].file, log[j].imoP)
         /\ \A v \in PriorDB.vessels : v.imo # CallIMO(log[i].file, log[i].imoP)) =>
            /\ log[i].status = "ingested"
            /\ log[j].status = "ingested"
            /\ log[i].vesselID = log[j].vesselID
            /\ Cardinality({v \in db.vessels :
                               v.imo = CallIMO(log[i].file, log[i].imoP)}) = 1

\* The identifier of a stored row: the field its processor tags the
\* fingerprint with.
TagOf(stream, x) ==
    CASE stream = "engines" -> <<"engine_no", x.f.engine_no>>
      [] stream = "fuel" -> <<"tank_no", x.f.tank_no>>
      [] stream = "generators" -> <<"gen_no", x.f.gen_no>>
      [] stream = "cctv" -> <<"cam_id", x.f.cam_id>>
      [] stream = "impact" -> <<"sensor_id", x.f.sensor_id>>
      [] OTHER -> <<"status", x.f.status>>

\* Two rows with the same vessel, second, identifier and extra payload.
Alike(stream, x, y) ==
    /\ x.vessel_id = y.vessel_id
    /\ FormatRFC3339(x.ts) = FormatRFC3339(y.ts)
    /\ TagOf(stream, x) = TagOf(stream, y)
    /\ x.extra_json = y.extra_json

VesselIDs(d) == {v.id : v \in d.vessels}

\* C29: every StreamLatest row is of an existing vessel and of a stream
\* that vessel has a reading of, and every reading is of an existing
\* vessel.
C29_References ==
    /\ \A x \in db.latest :
          /\ x.vessel_id \in VesselIDs(db)
          /\ \E r \in db.readings[x.stream] : r.vessel_id = x.vessel_id
    /\ \A stream \in Streams :
          \A r \in db.readings[stream] : r.vessel_id \in VesselIDs(db)

\* A call has written the pointers of a vessel other than the one of the
\* starting database, for its location and for a stream of its sheets,
\* while another call is between two statements.
C29_Witness ==
    /\ \E w \in Workers : loc[w].pc # "idle"
    /\ \E x, y \in db.latest :
          /\ x.vessel_id \notin VesselIDs(PriorDB)
          /\ y.vessel_id = x.vessel_id
          /\ x.stream = "location"
          /\ y.stream # "location"

\* The call resolves no IMO: none is given and the sheet has none.
NameOnly(file, imoP) == CallIMO(file, imoP) = ""

\* The vessel name of a call: the sheet's, else the parameter.
CallName(file, nameP) ==
    IF SheetValue(file, "name") # "" THEN SheetValue(file, "name") ELSE nameP

=============================================================================
